---- MODULE Spec2Model ----
(***************************************************************************)
(* The chunked analysis orchestrator (runAnalysis) and its resilient       *)
(* generation primitive (generateAndParseJsonWithRetry), as a state        *)
(* machine.  One run of runAnalysis is followed from its call to its       *)
(* return; every updateStep call is one step of the machine, so every      *)
(* value of currentState is a state handed to onStateUpdate (or the        *)
(* initial state, which is never emitted).                                 *)
(*                                                                         *)
(* Texts are sequences of words; toLowerCase and includes act on the       *)
(* words.  Timestamps are sequences of characters.                         *)
(***************************************************************************)
EXTENDS Integers, Sequences, FiniteSets, TLC

VARIABLES
    appStatus,              \* App: 'idle' | 'processing' | 'finished'
    isSettingsModalOpen,    \* App: the settings dialog is shown
    batches,                \* App: the handleBatchAnalyze invocations so far
    analysisState,          \* App: the displayed AnalysisState: <<>> (null), or
                            \* <<b, i>>, a state emitted by run i of batch b
    analysisResult,         \* App: the displayed result, as above
    videoMetadata,          \* App: the displayed metadata, as above
    apiKeys,                \* the credential list (App state, handed to the run)
    metadata,               \* VideoMetadata: [title, duration]
    outputDurationMinutes,  \* 0 stands for undefined / 0 (both falsy)
    pc,                     \* position of the run inside runAnalysis
    currentState,           \* AnalysisState: [currentStep, steps]
    emitted,                \* the state last handed to onStateUpdate, if any
    currentKeyIdx,          \* index (0-based) of the credential in use
    ai,                     \* the credential the model client was built with
    targetDurationSeconds,
    sceneCount,
    storyOutline,
    numChunks,
    i,                      \* chunk loop index
    windows,                \* (tStart, tEnd, scenes) of every chunk prompt so far
    chunkData,
    finalJson,
    allAssets,              \* Map id -> asset, in insertion order
    emittedAssets,          \* every asset the merged chunks carried, in order
    returnedScenes,         \* every scene the chunks returned, in order
    stage,                  \* which call site runs the primitive
    attempt,                \* primitive: loop counter
    lastError,              \* primitive: last failure (a text)
    retryNote,              \* primitive: last (attempt, delay, reason) notified,
                            \* and the delay then slept
    calls,                  \* primitive: model calls of this invocation so far
    notes,                  \* primitive: (attempt, delay) of every onRetry so far
    response,               \* how the model service answered the last call
    thrown,                 \* the exception in flight / caught
    hookCalls,              \* invocations of onAllKeysExhausted
    completed,              \* the results handed to onComplete, in order
    seconds,                \* time utilities: the number of seconds to format
    formatted,              \* time utilities: the timestamp written, if any
    formatter,              \* time utilities: which function wrote it
    videoUrl,               \* metadata service: the argument of fetchVideoMetadata
    videoId,                \* metadata service: what getVideoId returned
    fetchPc,                \* metadata service: position inside fetchVideoMetadata
    fetches,                \* metadata service: calls of fetch so far
    fetchResult,            \* metadata service: what the last fetch produced
    settled,                \* metadata service: how the returned promise settled
    file,                   \* local file: the File picked in the form
    meta,                   \* local file: what fetchFileMetadata resolved with
    entry,                  \* local file: the library entry pushed for it
    filePc                  \* local file: position inside handleBatchAnalyze

vars == << appStatus, isSettingsModalOpen, batches, analysisState, analysisResult,
           videoMetadata, apiKeys, metadata,
           outputDurationMinutes, pc, currentState, emitted,
           currentKeyIdx, ai, targetDurationSeconds, sceneCount, storyOutline,
           numChunks, i, windows, chunkData, finalJson, allAssets, emittedAssets,
           returnedScenes, stage,
           attempt, lastError, retryNote, calls, notes, response, thrown,
           hookCalls, completed, seconds, formatted, formatter,
           videoUrl, videoId, fetchPc, fetches, fetchResult, settled,
           file, meta, entry, filePc >>

-----------------------------------------------------------------------------
(* Bounds of the model *)

MaxKeys == 2
MaxSeconds == 36060
MaxScenes == 2
MaxDuration == 400
MaxMinutes == 2
MaxBatches == 2
MaxEntries == 2

(* Program constants *)

NumSteps == 8
maxRetries == 3
density == 5
CHUNK_SIZE == 120
MinSceneCount == 10
FallbackDuration == 300
BackoffBase == 3000
BackoffCap == 30000
JitterSpan == 1000

(* Inputs *)

Keys == << "k1", "k2", "k3", "k4" >>
Durations == {45, 130}
Minutes == {0, 1}
Titles == { <<>>, <<"Outline">> }
Jitters == {0, JitterSpan - 1}

-----------------------------------------------------------------------------
(* Texts *)

Null == << "<null>" >>

Falsy(v) == v = <<>> \/ v = Null

toLowerCase(w) ==
    CASE w = "Quota" -> "quota"
      [] w = "Exceeded" -> "exceeded"
      [] w = "Reached" -> "reached"
      [] w = "Service" -> "service"
      [] w = "Unavailable" -> "unavailable"
      [] w = "Model" -> "model"
      [] w = "Overloaded" -> "overloaded"
      [] w = "Bad" -> "bad"
      [] w = "Request" -> "request"
      [] w = "Empty" -> "empty"
      [] w = "AI" -> "ai"
      [] w = "Response" -> "response"
      [] w = "Unexpected" -> "unexpected"
      [] w = "Token" -> "token"
      [] w = "Thieu" -> "thieu"
      [] w = "API" -> "api"
      [] w = "Key" -> "key"
      [] w = "Khong" -> "khong"
      [] w = "Tra" -> "tra"
      [] w = "Ve" -> "ve"
      [] w = "Ket" -> "ket"
      [] w = "Qua" -> "qua"
      [] OTHER -> w

LowerText(t) == [k \in 1..Len(t) |-> toLowerCase(t[k])]

includes(t, w) == \E k \in 1..Len(t) : t[k] = w

Error(msg) == [kind |-> "Error", message |-> msg]
QuotaError(msg) == [kind |-> "QuotaError", message |-> msg]
NoError == [kind |-> "none", message |-> <<>>]

getErrorMessage_NoLower(error) ==
    IF error.kind = "none" THEN << "unknown" >> ELSE error.message

getErrorMessage(error) ==
    IF error.kind = "none" THEN << "unknown" >> ELSE LowerText(error.message)

-----------------------------------------------------------------------------
(* AnalysisState and updateStep *)

Out(tag, n, r) == [tag |-> tag, n |-> n, r |-> r]
NoOut == Out("", 0, <<>>)

InitialState ==
    [currentStep |-> 0,
     steps |-> [s \in 0..(NumSteps - 1) |->
                   [status |-> "pending", output |-> NoOut, error |-> Null]]]

updateStep_SpreadOrder(S, idx, status, output, error) ==
    IF status = "processing"
    THEN [currentStep |-> idx, steps |-> S.steps]
    ELSE IF status = "complete" /\ idx < NumSteps - 1
    THEN [currentStep |-> idx + 1,
          steps |-> [S.steps EXCEPT ![idx + 1].status = "processing"]]
    ELSE S

updateStep_NoAutoStart(S, idx, status, output, error) ==
    LET step == [S.steps[idx] EXCEPT
                    !.status = status,
                    !.output = IF output.tag = "" THEN @ ELSE output,
                    !.error = IF Falsy(error) THEN Null ELSE error]
        steps1 == [S.steps EXCEPT ![idx] = step]
    IN  IF status = "processing"
        THEN [currentStep |-> idx, steps |-> steps1]
        ELSE IF status = "complete" /\ idx < NumSteps - 1
        THEN [currentStep |-> idx + 1, steps |-> steps1]
        ELSE [currentStep |-> S.currentStep, steps |-> steps1]

updateStep_CursorStays(S, idx, status, output, error) ==
    LET step == [S.steps[idx] EXCEPT
                    !.status = status,
                    !.output = IF output.tag = "" THEN @ ELSE output,
                    !.error = IF Falsy(error) THEN Null ELSE error]
        steps1 == [S.steps EXCEPT ![idx] = step]
    IN  IF status = "processing"
        THEN [currentStep |-> idx, steps |-> steps1]
        ELSE IF status = "complete" /\ idx < NumSteps - 1
        THEN [currentStep |-> S.currentStep,
              steps |-> [steps1 EXCEPT ![idx + 1].status = "processing"]]
        ELSE [currentStep |-> S.currentStep, steps |-> steps1]

updateStep(S, idx, status, output, error) ==
    LET step == [S.steps[idx] EXCEPT
                    !.status = status,
                    !.output = IF output.tag = "" THEN @ ELSE output,
                    !.error = IF Falsy(error) THEN Null ELSE error]
        steps1 == [S.steps EXCEPT ![idx] = step]
    IN  IF status = "processing"
        THEN [currentStep |-> idx, steps |-> steps1]
        ELSE IF status = "complete" /\ idx < NumSteps - 1
        THEN [currentStep |-> idx + 1,
              steps |-> [steps1 EXCEPT ![idx + 1].status = "processing"]]
        ELSE [currentStep |-> S.currentStep, steps |-> steps1]

-----------------------------------------------------------------------------
(* Arithmetic *)

Ceil(a, b) == (a + b - 1) \div b
Max(a, b) == IF a >= b THEN a ELSE b
Min(a, b) == IF a <= b THEN a ELSE b

RECURSIVE Pow2(_)
Pow2(n) == IF n <= 0 THEN 1 ELSE 2 * Pow2(n - 1)

TargetDuration_NoFallback(minutes, duration) ==
    IF minutes > 0 THEN minutes * 60 ELSE duration

TargetDuration(minutes, duration) ==
    IF minutes > 0 THEN minutes * 60
    ELSE IF duration > 0 THEN duration ELSE FallbackDuration

SceneEstimate_Floor(d) == Max(MinSceneCount, d \div density)

SceneEstimate(d) == Max(MinSceneCount, Ceil(d, density))

NumChunks(d) == Max(1, Ceil(d, CHUNK_SIZE))

tStart(k) == k * CHUNK_SIZE
tEnd_Unclamped(k, d) == (k + 1) * CHUNK_SIZE

tEnd(k, d) == Min((k + 1) * CHUNK_SIZE, d)
chunkDuration(k, d) == tEnd(k, d) - tStart(k)
scenesForThisChunk_Floor(k, d) == chunkDuration(k, d) \div density

scenesForThisChunk_PerTarget(k, d) == Ceil(d, density)

scenesForThisChunk(k, d) == Ceil(chunkDuration(k, d), density)

RetryDelay_ExponentN(n, jitter) == Min(BackoffCap, BackoffBase * Pow2(n) + jitter)

RetryDelay_NoBackoff(n, jitter) == Min(BackoffCap, BackoffBase + jitter)

RetryDelay(n, jitter) == Min(BackoffCap, BackoffBase * Pow2(n - 1) + jitter)

-----------------------------------------------------------------------------
(* What the model service can answer *)

QuotaReasons == { <<"Quota", "Exceeded">>, <<"429", "Overloaded">> }
TransientReasons == { <<"503", "Service", "Unavailable">>, <<"Model", "Overloaded">> }
FatalReasons == { <<"Bad", "Request">> }
Reasons == QuotaReasons \cup TransientReasons \cup FatalReasons

EmptyResponse == <<"Empty", "AI", "Response">>
SyntaxError == <<"Unexpected", "Token">>

\* JSON.parse words its SyntaxError itself, and the wording quotes the place
\* (or a piece) of the offending text
SyntaxErrors ==
    { SyntaxError,
      <<"Unterminated", "String", "In", "JSON", "At", "Position", "503">>,
      <<"Unterminated", "String", "In", "JSON", "At", "Position", "429">> }

NoResponse == [kind |-> "none", message |-> <<>>]
Value == [kind |-> "value", message |-> <<>>]
Rejected(r) == [kind |-> "rejected", message |-> r]
Empty == [kind |-> "empty", message |-> EmptyResponse]
Unparseable(r) == [kind |-> "unparseable", message |-> r]

Responses ==
    { Rejected(r) : r \in Reasons } \cup { Empty }
        \cup { Unparseable(r) : r \in SyntaxErrors }

T0s == { <<"1", ":", "0", "0">>, <<"1", "0", ":", "0", "0">> }
ReturnedMeta == [title |-> <<"Model">>, duration_sec |-> 1]

NoOutline == [isNull |-> TRUE, title |-> <<>>]
OutlinePayloads == { [isNull |-> FALSE, title |-> t] : t \in Titles }

NoJson ==
    [isNull |-> TRUE, video_meta |-> [title |-> <<>>, duration_sec |-> 0],
     scenes |-> <<>>, assets |-> <<>>, story_outline |-> NoOutline]

\* the scenes chunk k can return: every list of at most MaxScenes scenes;
\* summary stands for the scene's descriptive fields
SceneLists(k) ==
    UNION { { [p \in 1..n |-> [scene_id |-> 7, t0 |-> f[p],
                                summary |-> <<k, p>>]] : f \in [1..n -> T0s] }
            : n \in 0..MaxScenes }

\* the assets chunk k can return: none; one without an id and one with;
\* or three of which the first and the last share an id
AssetLists(k) ==
    { <<>>,
      << [id |-> "", type |-> "prop", description |-> <<k, 1>>],
         [id |-> "A1", type |-> "prop", description |-> <<k, 2>>] >>,
      << [id |-> "A1", type |-> "prop", description |-> <<k, 1>>],
         [id |-> "A2", type |-> "prop", description |-> <<k, 2>>],
         [id |-> "A1", type |-> "prop", description |-> <<k, 3>>] >> }

ChunkPayloads(k) ==
    { NoJson } \cup
    { [isNull |-> FALSE, video_meta |-> ReturnedMeta, scenes |-> sc,
       assets |-> as, story_outline |-> NoOutline]
        : sc \in SceneLists(k), as \in AssetLists(k) }

-----------------------------------------------------------------------------
(* Merge and normalisation helpers *)

MapSet_KeepFirst(m, a) ==
    IF \E k \in 1..Len(m) : m[k].id = a.id THEN m ELSE Append(m, a)

\* Map.prototype.set: an existing key keeps its place and takes the new value
MapSet(m, a) ==
    IF \E k \in 1..Len(m) : m[k].id = a.id
    THEN [k \in 1..Len(m) |-> IF m[k].id = a.id THEN a ELSE m[k]]
    ELSE Append(m, a)

RECURSIVE MergeAssets(_, _)
MergeAssets(m, as) ==
    IF as = <<>> THEN m
    ELSE MergeAssets(IF Head(as).id # "" THEN MapSet(m, Head(as)) ELSE m, Tail(as))

\* collation order of the characters of a timestamp: punctuation sorts
\* before digits
CollationRank(c) ==
    CASE c = ":" -> 0
      [] c = "0" -> 1
      [] c = "1" -> 2
      [] c = "2" -> 3
      [] c = "3" -> 4
      [] c = "4" -> 5
      [] c = "5" -> 6
      [] c = "6" -> 7
      [] c = "7" -> 8
      [] c = "8" -> 9
      [] c = "9" -> 10

RECURSIVE localeCompare(_, _)
localeCompare(a, b) ==
    IF a = <<>> /\ b = <<>> THEN 0
    ELSE IF a = <<>> THEN -1
    ELSE IF b = <<>> THEN 1
    ELSE IF CollationRank(Head(a)) < CollationRank(Head(b)) THEN -1
    ELSE IF CollationRank(Head(a)) > CollationRank(Head(b)) THEN 1
    ELSE localeCompare(Tail(a), Tail(b))

compareScenes(a, b) == localeCompare(a.t0, b.t0)

\* an insertion that lets go of a scene whose t0 is already present
RECURSIVE InsertSorted_DropTies(_, _)
InsertSorted_DropTies(s, x) ==
    IF s = <<>> THEN << x >>
    ELSE IF compareScenes(x, Head(s)) < 0 THEN << x >> \o s
    ELSE IF compareScenes(x, Head(s)) = 0 THEN s
    ELSE << Head(s) >> \o InsertSorted_DropTies(Tail(s), x)

\* stable insertion: x goes after every element that is not greater than it
RECURSIVE InsertSorted(_, _)
InsertSorted(s, x) ==
    IF s = <<>> THEN << x >>
    ELSE IF compareScenes(x, Head(s)) < 0 THEN << x >> \o s
    ELSE << Head(s) >> \o InsertSorted(Tail(s), x)

RECURSIVE SortScenes(_)
SortScenes(s) ==
    IF s = <<>> THEN <<>>
    ELSE InsertSorted(SortScenes(SubSeq(s, 1, Len(s) - 1)), s[Len(s)])

Renumber(s) == [k \in 1..Len(s) |-> [s[k] EXCEPT !.scene_id = k]]

Normalized_RenumberFirst(s) == SortScenes(Renumber(s))

Normalized(s) == Renumber(SortScenes(s))

Classify_TransientFirst(msg) ==
    IF includes(msg, "503") \/ includes(msg, "unavailable")
          \/ includes(msg, "overloaded") THEN "transient"
    ELSE IF includes(msg, "quota") \/ includes(msg, "429") THEN "quota"
    ELSE "fatal"

Classify(msg) ==
    IF includes(msg, "quota") \/ includes(msg, "429") THEN "quota"
    ELSE IF ~includes(msg, "503") /\ ~includes(msg, "unavailable")
            /\ ~includes(msg, "overloaded") THEN "fatal"
    ELSE "transient"

-----------------------------------------------------------------------------
(* The run *)

\* the locals of a run that has not started
Fresh ==
    /\ pc = "start"
    /\ currentState = InitialState
    /\ emitted = <<>>
    /\ currentKeyIdx = 0
    /\ ai = "none"
    /\ targetDurationSeconds = 0
    /\ sceneCount = 0
    /\ storyOutline = NoOutline
    /\ numChunks = 0
    /\ i = 0
    /\ windows = <<>>
    /\ chunkData = NoJson
    /\ finalJson = NoJson
    /\ allAssets = <<>>
    /\ emittedAssets = <<>>
    /\ returnedScenes = <<>>
    /\ stage = "none"
    /\ attempt = 0
    /\ lastError = NoError
    /\ retryNote = [attempt |-> 0, delay |-> 0, reason |-> <<>>, slept |-> 0]
    /\ calls = 0
    /\ notes = <<>>
    /\ response = NoResponse
    /\ thrown = NoError
    /\ hookCalls = 0
    /\ completed = <<>>

NoUrl == [parses |-> FALSE, hostname |-> "", v |-> "", path |-> <<>>, match |-> ""]
Unsettled == [state |-> "pending", videoId |-> "", title |-> "", duration |-> 0,
              durationFormatted |-> <<>>]
NoDuration == [present |-> FALSE, pt |-> FALSE, h |-> -1, m |-> -1, s |-> -1]
NoFetch == [kind |-> "none", duration |-> NoDuration]

\* the time utilities and the metadata service before any call
Unused ==
    /\ seconds = 0
    /\ formatted = <<>>
    /\ formatter = "none"
    /\ videoUrl = NoUrl
    /\ videoId = ""
    /\ fetchPc = "idle"
    /\ fetches = 0
    /\ fetchResult = NoFetch
    /\ settled = Unsettled

\* no file has been picked
NoFile == [readable |-> FALSE, length |-> 0]
NoMeta == [title |-> <<>>, duration |-> 0, localBlobUrl |-> FALSE]
NoEntry == [isLocalFile |-> FALSE, title |-> <<>>, localBlobUrl |-> FALSE, result |-> NoJson]

NoUpload ==
    /\ file = NoFile
    /\ meta = NoMeta
    /\ entry = NoEntry
    /\ filePc = "idle"

\* the App component after mounting
Mounted ==
    /\ appStatus = "idle"
    /\ isSettingsModalOpen = FALSE
    /\ batches = <<>>
    /\ analysisState = <<>>
    /\ analysisResult = <<>>
    /\ videoMetadata = <<>>

Init ==
    /\ apiKeys \in { SubSeq(Keys, 1, n) : n \in 0..MaxKeys }
    /\ metadata \in { [title |-> <<"Video">>, duration |-> d] : d \in Durations }
    /\ outputDurationMinutes \in Minutes
    /\ Fresh
    /\ Mounted
    /\ NoUpload
    /\ Unused

\* what a run reads and never writes: its arguments and the caller's state
view == << analysisState, analysisResult, videoMetadata >>
app == << appStatus, isSettingsModalOpen, batches, view >>
clock == << seconds, formatted, formatter >>
lookup == << videoUrl, videoId, fetchPc, fetches, fetchResult, settled >>
upload == << file, meta, entry, filePc >>
inputs == << app, clock, lookup, upload, apiKeys, metadata, outputDurationMinutes >>
primitive == << stage, attempt, lastError, retryNote, calls, notes, response >>
results == << storyOutline, chunkData, finalJson, allAssets, emittedAssets,
             returnedScenes >>
plan == << targetDurationSeconds, sceneCount, numChunks, i, windows >>
callbacks == << hookCalls, completed >>

Notify_BeforeMutation(idx, status, output, error) ==
    /\ emitted' = << currentState >>
    /\ currentState' = updateStep(currentState, idx, status, output, error)

\* one updateStep call: mutate the state, then onStateUpdate(currentState)
Notify(idx, status, output, error) ==
    /\ currentState' = updateStep(currentState, idx, status, output, error)
    /\ emitted' = << currentState' >>

\* one updateStep call, and go on at `next`
Emit(idx, status, output, error, next) ==
    /\ Notify(idx, status, output, error)
    /\ pc' = next

\* if (!apiKeys.length) throw ...; currentKeyIdx = 0; ai = new GoogleGenAI(...)
CheckKeys ==
    /\ pc = "start"
    /\ IF Len(apiKeys) = 0
       THEN /\ thrown' = Error(<<"Thieu", "API", "Key">>)
            /\ pc' = "catch"
            /\ UNCHANGED << currentKeyIdx, ai >>
       ELSE /\ currentKeyIdx' = 0
            /\ ai' = apiKeys[1]
            /\ pc' = "step0"
            /\ UNCHANGED thrown
    /\ UNCHANGED << inputs, currentState, emitted, primitive, results, plan, callbacks >>

Step0Processing ==
    /\ pc = "step0"
    /\ Emit(0, "processing", Out("metadata", 0, <<>>), Null, "step0c")
    /\ UNCHANGED << inputs, currentKeyIdx, ai, primitive, results, plan, thrown, callbacks >>

Step0Complete ==
    /\ pc = "step0c"
    /\ Emit(0, "complete", NoOut, Null, "step1")
    /\ UNCHANGED << inputs, currentKeyIdx, ai, primitive, results, plan, thrown, callbacks >>

Step1Processing ==
    /\ pc = "step1"
    /\ Emit(1, "processing", Out("preparing", 0, <<>>), Null, "step1c")
    /\ UNCHANGED << inputs, currentKeyIdx, ai, primitive, results, plan, thrown, callbacks >>

Step1Complete ==
    /\ pc = "step1c"
    /\ Emit(1, "complete", NoOut, Null, "step2")
    /\ UNCHANGED << inputs, currentKeyIdx, ai, primitive, results, plan, thrown, callbacks >>

Step2Processing ==
    /\ pc = "step2"
    /\ targetDurationSeconds' = TargetDuration(outputDurationMinutes, metadata.duration)
    /\ Emit(2, "processing", Out("target", targetDurationSeconds', <<>>), Null, "step2c")
    /\ UNCHANGED << inputs, currentKeyIdx, ai, primitive, results, sceneCount,
                    numChunks, i, windows, thrown, callbacks >>

Step2Complete ==
    /\ pc = "step2c"
    /\ sceneCount' = SceneEstimate(targetDurationSeconds)
    /\ Emit(2, "complete", Out("detected", sceneCount', <<>>), Null, "step3")
    /\ UNCHANGED << inputs, currentKeyIdx, ai, primitive, results,
                    targetDurationSeconds, numChunks, i, windows, thrown, callbacks >>

Step3Processing ==
    /\ pc = "step3"
    /\ Emit(3, "processing", Out("extracting", 0, <<>>), Null, "step3c")
    /\ UNCHANGED << inputs, currentKeyIdx, ai, primitive, results, plan, thrown, callbacks >>

Step3Complete ==
    /\ pc = "step3c"
    /\ Emit(3, "complete", Out("keyframes", 0, <<>>), Null, "step4")
    /\ UNCHANGED << inputs, currentKeyIdx, ai, primitive, results, plan, thrown, callbacks >>

\* updateStep(4, PROCESSING, ...) and the call of the primitive for the outline
Step4Processing ==
    /\ pc = "step4"
    /\ Emit(4, "processing", Out("outlining", 0, <<>>), Null, "gen_call")
    /\ stage' = "outline"
    /\ attempt' = 0
    /\ lastError' = NoError
    /\ UNCHANGED << inputs, currentKeyIdx, ai, retryNote, calls, notes, response,
                    results, plan, thrown, callbacks >>

-----------------------------------------------------------------------------
(* generateAndParseJsonWithRetry *)

NoNote == [attempt |-> 0, delay |-> 0, reason |-> <<>>, slept |-> 0]

\* leaving the primitive with an exception: it reaches the call site's handler
Raise(e) ==
    /\ thrown' = e
    /\ pc' = IF stage = "chunk" THEN "chunk_catch" ELSE "catch"
    /\ attempt' = 0
    /\ lastError' = NoError
    /\ retryNote' = NoNote
    /\ calls' = 0
    /\ notes' = <<>>

\* the catch block of one attempt
Caught(error) ==
    LET msg == getErrorMessage(error)
    IN  IF Classify(msg) = "quota" THEN Raise(QuotaError(<<"Quota", "Reached">>))
        ELSE IF Classify(msg) = "fatal" THEN Raise(error)
        ELSE /\ lastError' = error
             /\ attempt' = attempt + 1
             /\ calls' = calls + 1
             /\ pc' = "gen_try"
             /\ UNCHANGED << thrown, retryNote, notes >>

WithinRetries_OneMore(a) == a <= maxRetries + 1

WithinRetries_OneLess(a) == a < maxRetries

\* for (let attempt = 0; attempt <= maxRetries; attempt++)
WithinRetries(a) == a <= maxRetries

\* attempt > 0: onRetry(attempt, delay, reason), then sleep(delay)
GenRetryNotify ==
    /\ pc = "gen_try"
    /\ attempt > 0
    /\ WithinRetries(attempt)
    /\ \E jitter \in Jitters :
          retryNote' = [attempt |-> attempt,
                        delay |-> RetryDelay(attempt, jitter),
                        reason |-> getErrorMessage(lastError),
                        slept |-> RetryDelay(attempt, jitter)]
    /\ notes' = Append(notes, [attempt |-> retryNote'.attempt,
                               delay |-> retryNote'.delay])
    /\ IF stage = "chunk"
       THEN Notify(5, "processing", Out("retry", i + 1, retryNote'.reason), Null)
       ELSE UNCHANGED << currentState, emitted >>
    /\ pc' = "gen_call"
    /\ UNCHANGED << inputs, currentKeyIdx, ai, stage, attempt, lastError, calls,
                    response, results, plan, thrown, callbacks >>

\* the loop ran out: throw new Error(`AI error after ${maxRetries} retries: ...`)
GenGiveUp ==
    /\ pc = "gen_try"
    /\ ~WithinRetries(attempt)
    /\ Raise(Error(<<"AI", "error", "after", ToString(maxRetries), "retries:">>
                   \o getErrorMessage(lastError)))
    /\ UNCHANGED << inputs, currentState, emitted, currentKeyIdx, ai, stage, response,
                    results, plan, callbacks >>

\* the model answers with text that parses to one of the given values: the
\* primitive returns it
CallReturns(outlines, chunks) ==
    /\ pc = "gen_call"
    /\ IF stage = "outline"
       THEN /\ storyOutline' \in outlines
            /\ pc' = "step4c"
            /\ UNCHANGED chunkData
       ELSE /\ chunkData' \in chunks
            /\ pc' = "chunk_merge"
            /\ UNCHANGED storyOutline
    /\ response' = Value
    /\ attempt' = 0
    /\ lastError' = NoError
    /\ retryNote' = NoNote
    /\ calls' = 0
    /\ notes' = <<>>
    /\ UNCHANGED << inputs, currentState, emitted, currentKeyIdx, ai, stage, finalJson,
                    allAssets, emittedAssets, returnedScenes, plan, thrown, callbacks >>

\* the model answers with any outline, or with any scenes and assets for chunk i
GenCallReturns ==
    /\ stage \in {"outline", "chunk"}
    /\ CallReturns(OutlinePayloads, ChunkPayloads(i))

\* the call rejects, or answers with no text, or with text that does not parse
GenCallFails ==
    /\ pc = "gen_call"
    /\ \E a \in Responses :
          /\ response' = a
          /\ Caught(Error(a.message))
    /\ UNCHANGED << inputs, currentState, emitted, currentKeyIdx, ai, stage,
                    results, plan, callbacks >>

-----------------------------------------------------------------------------
(* Outline done, chunk loop *)

Step4Complete ==
    /\ pc = "step4c"
    /\ Emit(4, "complete", Out("outline", 0, storyOutline.title), Null, "step5")
    /\ UNCHANGED << inputs, currentKeyIdx, ai, primitive, results, plan, thrown, callbacks >>

Step5Processing ==
    /\ pc = "step5"
    /\ Emit(5, "processing", NoOut, Null, "chunk_loop")
    /\ numChunks' = NumChunks(targetDurationSeconds)
    /\ i' = 0
    /\ windows' = <<>>
    /\ finalJson' = NoJson
    /\ allAssets' = <<>>
    /\ emittedAssets' = <<>>
    /\ returnedScenes' = <<>>
    /\ UNCHANGED << inputs, currentKeyIdx, ai, primitive, storyOutline, chunkData,
                    targetDurationSeconds, sceneCount, thrown, callbacks >>

\* head of the for loop: next window, or skip it, or leave the loop
ChunkLoop ==
    /\ pc = "chunk_loop"
    /\ IF i >= numChunks
       THEN /\ pc' = "normalize"
            /\ UNCHANGED << i, windows, chunkData, stage, attempt, lastError >>
       ELSE IF chunkDuration(i, targetDurationSeconds) <= 0 /\ i > 0
       THEN /\ i' = i + 1
            /\ pc' = "chunk_loop"
            /\ UNCHANGED << windows, chunkData, stage, attempt, lastError >>
       ELSE /\ windows' = Append(windows,
                                 [tStart |-> tStart(i),
                                  tEnd |-> tEnd(i, targetDurationSeconds),
                                  scenes |-> scenesForThisChunk(i, targetDurationSeconds)])
            /\ chunkData' = NoJson
            /\ stage' = "chunk"
            /\ attempt' = 0
            /\ lastError' = NoError
            /\ pc' = "gen_call"
            /\ UNCHANGED i
    /\ UNCHANGED << inputs, currentState, emitted, currentKeyIdx, ai, retryNote, calls,
                    notes, response, storyOutline,
                    finalJson, allAssets, emittedAssets, returnedScenes,
                    targetDurationSeconds,
                    sceneCount, numChunks, thrown, callbacks >>

instanceofQuotaError_Any(e) == TRUE

instanceofQuotaError(e) == e.kind = "QuotaError"

NextKeyIdx_Stay(idx) == idx

NextKeyIdx_Wrap(idx) == (idx + 1) % Len(apiKeys)

NextKeyIdx(idx) == idx + 1

\* catch (e) { if (e instanceof QuotaError && ++currentKeyIdx < apiKeys.length)
\*               { ai = ...; continue; }  throw e; }
ChunkCatch ==
    /\ pc = "chunk_catch"
    /\ IF instanceofQuotaError(thrown)
       THEN /\ currentKeyIdx' = NextKeyIdx(currentKeyIdx)
            /\ IF currentKeyIdx' < Len(apiKeys)
               THEN /\ ai' = apiKeys[currentKeyIdx' + 1]
                    /\ thrown' = NoError
                    /\ pc' = "gen_call"
               ELSE /\ pc' = "catch"
                    /\ UNCHANGED << ai, thrown >>
       ELSE /\ pc' = "catch"
            /\ UNCHANGED << currentKeyIdx, ai, thrown >>
    /\ UNCHANGED << inputs, currentState, emitted, primitive, results, plan, callbacks >>

Seeded_KeepMeta(data) == data

\* finalJson = chunkData; video_meta.title = ...; video_meta.duration_sec = ...
Seeded(data) ==
    [data EXCEPT !.video_meta.title =
                     IF Falsy(storyOutline.title) THEN metadata.title
                     ELSE storyOutline.title,
                 !.video_meta.duration_sec = targetDurationSeconds]

\* success = true; if (chunkData) { seed or append; merge the assets }; i++
\* (chunkData is local to the iteration and is gone when it ends)
ChunkMerge ==
    /\ pc = "chunk_merge"
    /\ IF chunkData.isNull
       THEN UNCHANGED << finalJson, allAssets, emittedAssets >>
       ELSE /\ finalJson' = IF finalJson.isNull THEN Seeded(chunkData)
                            ELSE [finalJson EXCEPT !.scenes = @ \o chunkData.scenes]
            /\ allAssets' = MergeAssets(allAssets, chunkData.assets)
            /\ emittedAssets' = emittedAssets \o chunkData.assets
    /\ returnedScenes' = returnedScenes \o chunkData.scenes
    /\ chunkData' = NoJson
    /\ i' = i + 1
    /\ pc' = "chunk_loop"
    /\ UNCHANGED << inputs, currentState, emitted, currentKeyIdx, ai, primitive, storyOutline,
                    targetDurationSeconds, sceneCount, numChunks, windows, thrown,
                    callbacks >>

-----------------------------------------------------------------------------
(* Post-loop normalisation, completion, failure *)

NoResultMessage == <<"AI", "Khong", "Tra", "Ve", "Ket", "Qua">>

EmptyResult_NullOnly(fj) == fj.isNull

\* !finalJson || !finalJson.scenes.length
EmptyResult(fj) == fj.isNull \/ Len(fj.scenes) = 0

\* empty check, then assets, outline, sort, renumber
Normalize ==
    /\ pc = "normalize"
    /\ IF EmptyResult(finalJson)
       THEN /\ thrown' = Error(NoResultMessage)
            /\ pc' = "catch"
            /\ UNCHANGED finalJson
       ELSE /\ finalJson' = [finalJson EXCEPT !.assets = allAssets,
                                              !.story_outline = storyOutline,
                                              !.scenes = Normalized(@)]
            /\ pc' = "step5c"
            /\ UNCHANGED thrown
    /\ UNCHANGED << inputs, currentState, emitted, currentKeyIdx, ai, primitive, storyOutline,
                    chunkData, allAssets, emittedAssets, returnedScenes, plan,
                    callbacks >>

Step5Complete_ThenOnComplete ==
    /\ pc = "step5c"
    /\ Emit(5, "complete", Out("total", Len(finalJson.scenes), <<>>), Null, "complete")
    /\ UNCHANGED << inputs, currentKeyIdx, ai, primitive, results, plan, thrown, callbacks >>

Step5Complete ==
    /\ pc = "step5c"
    /\ Emit(5, "complete", Out("total", Len(finalJson.scenes), <<>>), Null, "step6c")
    /\ UNCHANGED << inputs, currentKeyIdx, ai, primitive, results, plan, thrown, callbacks >>

Step6Complete ==
    /\ pc = "step6c"
    /\ Emit(6, "complete", Out("json", Len(finalJson.scenes), <<>>), Null, "step7c")
    /\ UNCHANGED << inputs, currentKeyIdx, ai, primitive, results, plan, thrown, callbacks >>

Step7Complete ==
    /\ pc = "step7c"
    /\ Emit(7, "complete", Out("ready", 0, <<>>), Null, "complete")
    /\ UNCHANGED << inputs, currentKeyIdx, ai, primitive, results, plan, thrown, callbacks >>

\* onComplete(finalJson)
Complete ==
    /\ pc = "complete"
    /\ completed' = Append(completed, finalJson)
    /\ pc' = "done"
    /\ UNCHANGED << inputs, currentState, emitted, currentKeyIdx, ai, primitive, results,
                    plan, thrown, hookCalls >>

\* catch (error) { updateStep(currentState.currentStep, ERROR, null, message) }
Catch ==
    /\ pc = "catch"
    /\ Emit(currentState.currentStep, "error", NoOut, getErrorMessage(thrown), "failed")
    /\ UNCHANGED << inputs, currentKeyIdx, ai, primitive, results, plan, thrown, callbacks >>

Next ==
    \/ CheckKeys
    \/ Step0Processing \/ Step0Complete
    \/ Step1Processing \/ Step1Complete
    \/ Step2Processing \/ Step2Complete
    \/ Step3Processing \/ Step3Complete
    \/ Step4Processing
    \/ GenRetryNotify \/ GenGiveUp \/ GenCallReturns \/ GenCallFails
    \/ Step4Complete \/ Step5Processing
    \/ ChunkLoop \/ ChunkCatch \/ ChunkMerge
    \/ Normalize
    \/ Step5Complete \/ Step6Complete \/ Step7Complete
    \/ Complete
    \/ Catch

Spec == Init /\ [][Next]_vars

-----------------------------------------------------------------------------
(* The duration arithmetic of a run: every duration up to MaxDuration and
   every summary length up to MaxMinutes, one credential, and a model service
   that answers every call at once (an outline, then nothing for each chunk),
   so that the run walks through its whole chunk plan *)

PlanInit ==
    /\ apiKeys = SubSeq(Keys, 1, 1)
    /\ metadata \in { [title |-> <<"Video">>, duration |-> d] : d \in 0..MaxDuration }
    /\ outputDurationMinutes \in 0..MaxMinutes
    /\ Fresh
    /\ Mounted
    /\ NoUpload
    /\ Unused

PlanCallReturns ==
    /\ GenCallReturns
    /\ stage = "outline" => storyOutline' = [isNull |-> FALSE, title |-> <<"Outline">>]
    /\ stage = "chunk" => chunkData' = NoJson

PlanNext ==
    \/ CheckKeys
    \/ Step0Processing \/ Step0Complete
    \/ Step1Processing \/ Step1Complete
    \/ Step2Processing \/ Step2Complete
    \/ Step3Processing \/ Step3Complete
    \/ Step4Processing
    \/ PlanCallReturns
    \/ Step4Complete \/ Step5Processing
    \/ ChunkLoop \/ ChunkMerge
    \/ Normalize
    \/ Catch

SpecPlan == PlanInit /\ [][PlanNext]_vars

-----------------------------------------------------------------------------
(* The App component: batches of runs started from the form. A run is taken
   as a whole here: it executes from the call of runAnalysis until its
   promise settles *)

AppInit ==
    /\ apiKeys \in { SubSeq(Keys, 1, n) : n \in 0..MaxKeys }
    /\ metadata = [title |-> <<"Video">>, duration |-> 0]
    /\ outputDurationMinutes = 0
    /\ Fresh
    /\ Mounted
    /\ NoUpload
    /\ Unused

runLocals == << clock, lookup, upload, metadata, outputDurationMinutes, pc, currentState, emitted,
               currentKeyIdx, ai,
               primitive, results, plan, thrown, callbacks >>

\* the form is rendered while appStatus is 'idle'; its submit handler calls
\* handleBatchAnalyze, which runs up to its first await
Submit ==
    /\ appStatus = "idle"
    /\ Len(batches) < MaxBatches
    /\ \E n \in 1..MaxEntries :
          IF Len(apiKeys) = 0
          THEN /\ isSettingsModalOpen' = TRUE
               /\ UNCHANGED << appStatus, batches >>
          ELSE /\ appStatus' = "processing"
               /\ batches' = Append(batches, [pc |-> "fetching", sources |-> n,
                                              entries |-> 0, i |-> 0,
                                              library |-> <<>>, ends |-> <<>>])
               /\ UNCHANGED isSettingsModalOpen
    /\ UNCHANGED << apiKeys, view, runLocals >>

\* the metadata of every source has arrived: one library entry per source,
\* status 'pending'
Fetched(b) ==
    /\ batches[b].pc = "fetching"
    /\ IF batches[b].sources = 0
       THEN /\ appStatus' = "idle"
            /\ batches' = [batches EXCEPT ![b].pc = "done"]
       ELSE /\ batches' = [batches EXCEPT ![b].pc = "loop",
                                          ![b].entries = batches[b].sources,
                                          ![b].i = 0,
                                          ![b].library =
                                              [k \in 1..batches[b].sources |-> "pending"]]
            /\ UNCHANGED appStatus
    /\ UNCHANGED << isSettingsModalOpen, apiKeys, view, runLocals >>

\* loop body up to the call of runAnalysis for entry i: setVideoMetadata,
\* setAnalysisState(null), setAnalysisResult(null), entry status 'processing'
StartRun(b) ==
    /\ batches[b].pc = "loop"
    /\ batches[b].i < batches[b].entries
    /\ batches' = [batches EXCEPT ![b].pc = "running",
                                  ![b].library[batches[b].i + 1] = "processing"]
    /\ videoMetadata' = << b, batches[b].i >>
    /\ analysisState' = <<>>
    /\ analysisResult' = <<>>
    /\ UNCHANGED << appStatus, isSettingsModalOpen, apiKeys, runLocals >>

\* the run calls onStateUpdate: (state) => setAnalysisState(state)
RunEmits(b) ==
    /\ batches[b].pc = "running"
    /\ analysisState' = << b, batches[b].i >>
    /\ UNCHANGED << appStatus, isSettingsModalOpen, batches, analysisResult,
                    videoMetadata, apiKeys, runLocals >>

\* how a run called with the App's callbacks can end: all steps complete
\* and onComplete called, or a step in error
RunEnds == { "done", "failed" }

Settles_FailureRejects(end) == IF end = "done" THEN "resolved" ELSE "rejected"

\* the promise of runAnalysis for a run that ended this way: the catch block
\* of runAnalysis reports the failure in the step and returns
Settles(end) == IF end = "rejected" THEN "rejected" ELSE "resolved"

\* the run ends and its promise settles: onComplete has set the result and
\* the entry status 'complete'; the catch branch sets the status 'error'; i++
RunSettles(b) ==
    /\ batches[b].pc = "running"
    /\ \E end \in RunEnds :
          LET k == batches[b].i + 1
              status == IF Settles(end) = "rejected" THEN "error"
                        ELSE IF end = "done" THEN "complete"
                        ELSE batches[b].library[k]
          IN  /\ batches' = [batches EXCEPT ![b].pc = "loop",
                                            ![b].i = @ + 1,
                                            ![b].library[k] = status,
                                            ![b].ends = Append(@, end)]
              /\ analysisResult' = IF end = "done" THEN << b, batches[b].i >>
                                   ELSE analysisResult
    /\ UNCHANGED << appStatus, isSettingsModalOpen, analysisState, videoMetadata,
                    apiKeys, runLocals >>

\* after the loop: setAppStatus('finished')
BatchEnds(b) ==
    /\ batches[b].pc = "loop"
    /\ batches[b].i >= batches[b].entries
    /\ appStatus' = "finished"
    /\ batches' = [batches EXCEPT ![b].pc = "done"]
    /\ UNCHANGED << isSettingsModalOpen, apiKeys, view, runLocals >>

\* the new-analysis button is rendered while appStatus is not 'idle'
handleReset ==
    /\ appStatus # "idle"
    /\ appStatus' = "idle"
    /\ analysisState' = <<>>
    /\ videoMetadata' = <<>>
    /\ analysisResult' = <<>>
    /\ UNCHANGED << isSettingsModalOpen, batches, apiKeys, runLocals >>

OpenSettings ==
    /\ ~isSettingsModalOpen
    /\ isSettingsModalOpen' = TRUE
    /\ UNCHANGED << appStatus, batches, apiKeys, view, runLocals >>

CloseSettings ==
    /\ isSettingsModalOpen
    /\ isSettingsModalOpen' = FALSE
    /\ UNCHANGED << appStatus, batches, apiKeys, view, runLocals >>

\* the settings dialog saves a credential list
SaveKeys ==
    /\ isSettingsModalOpen
    /\ apiKeys' \in { SubSeq(Keys, 1, n) : n \in 0..MaxKeys }
    /\ UNCHANGED << appStatus, isSettingsModalOpen, batches, view, runLocals >>

Batches == 1..Len(batches)
SomeFetched == \E b \in Batches : Fetched(b)
SomeStartRun == \E b \in Batches : StartRun(b)
SomeRunEmits == \E b \in Batches : RunEmits(b)
SomeRunSettles == \E b \in Batches : RunSettles(b)
SomeBatchEnds == \E b \in Batches : BatchEnds(b)

AppNext ==
    \/ Submit
    \/ SomeFetched \/ SomeStartRun \/ SomeRunEmits \/ SomeRunSettles \/ SomeBatchEnds
    \/ handleReset
    \/ OpenSettings \/ CloseSettings \/ SaveKeys

SpecApp == AppInit /\ [][AppNext]_vars

-----------------------------------------------------------------------------
(* Batches one after the other: one credential, and the new-analysis button
   is pressed only when a batch has finished *)

BatchInit ==
    /\ apiKeys = SubSeq(Keys, 1, 1)
    /\ metadata = [title |-> <<"Video">>, duration |-> 0]
    /\ outputDurationMinutes = 0
    /\ Fresh
    /\ Mounted
    /\ NoUpload
    /\ Unused

ResetWhenFinished ==
    /\ appStatus = "finished"
    /\ handleReset

BatchNext ==
    \/ Submit
    \/ SomeFetched \/ SomeStartRun \/ SomeRunEmits \/ SomeRunSettles \/ SomeBatchEnds
    \/ ResetWhenFinished

SpecBatch == BatchInit /\ [][BatchNext]_vars

-----------------------------------------------------------------------------
(* The time utilities: formatTime of the orchestrator and formatSeconds of
   the metadata service, applied to every whole number of seconds up to
   MaxSeconds.  A timestamp is the sequence of its characters *)

DigitChar(d) ==
    CASE d = 0 -> "0"
      [] d = 1 -> "1"
      [] d = 2 -> "2"
      [] d = 3 -> "3"
      [] d = 4 -> "4"
      [] d = 5 -> "5"
      [] d = 6 -> "6"
      [] d = 7 -> "7"
      [] d = 8 -> "8"
      [] d = 9 -> "9"

\* String(n) of a non-negative integer
RECURSIVE String(_)
String(n) ==
    IF n < 10 THEN << DigitChar(n) >>
    ELSE String(n \div 10) \o << DigitChar(n % 10) >>

\* text.padStart(width, '0')
RECURSIVE padStart(_, _)
padStart(text, width) ==
    IF Len(text) >= width THEN text ELSE padStart(<< "0" >> \o text, width)

\* fields.join(':')
RECURSIVE join(_)
join(fields) ==
    IF fields = <<>> THEN <<>>
    ELSE IF Len(fields) = 1 THEN fields[1]
    ELSE fields[1] \o << ":" >> \o join(Tail(fields))

formatTime_NoHours(secs) ==
    LET m == (secs % 3600) \div 60
        s == secs % 60
    IN  join(<< padStart(String(m), 2), padStart(String(s), 2) >>)

\* [h > 0 ? h : null, m, s].filter(x => x !== null)
\*     .map(x => String(x).padStart(2, '0')).join(':')
formatTime(secs) ==
    LET h == secs \div 3600
        m == (secs % 3600) \div 60
        s == secs % 60
        kept == IF h > 0 THEN << h, m, s >> ELSE << m, s >>
    IN  join([k \in 1..Len(kept) |-> padStart(String(kept[k]), 2)])

formatSeconds_HoursAfterOne(totalSeconds) ==
    LET hours == totalSeconds \div 3600
        minutes == (totalSeconds % 3600) \div 60
        secs == totalSeconds % 60
        short == padStart(String(minutes), 2) \o << ":" >> \o padStart(String(secs), 2)
    IN  IF hours > 1 THEN padStart(String(hours), 2) \o << ":" >> \o short ELSE short

\* formatted = `${fmtMinutes}:${fmtSeconds}`;
\* if (hours > 0) formatted = `${fmtHours}:${formatted}`
formatSeconds(totalSeconds) ==
    LET hours == totalSeconds \div 3600
        minutes == (totalSeconds % 3600) \div 60
        secs == totalSeconds % 60
        short == padStart(String(minutes), 2) \o << ":" >> \o padStart(String(secs), 2)
    IN  IF hours > 0 THEN padStart(String(hours), 2) \o << ":" >> \o short ELSE short

DigitValue(c) == CHOOSE d \in 0..9 : DigitChar(d) = c

\* the fields of a timestamp, each read as a decimal number
RECURSIVE Fields(_, _)
Fields(text, acc) ==
    IF text = <<>> THEN << acc >>
    ELSE IF Head(text) = ":" THEN << acc >> \o Fields(Tail(text), 0)
    ELSE Fields(Tail(text), 10 * acc + DigitValue(Head(text)))

\* the reading of a timestamp: [hh:]mm:ss to seconds
RECURSIVE Seconds(_, _)
Seconds(fields, acc) ==
    IF fields = <<>> THEN acc
    ELSE Seconds(Tail(fields), 60 * acc + Head(fields))

parse(text) == Seconds(Fields(text, 0), 0)

TimeInit ==
    /\ seconds \in 0..MaxSeconds
    /\ formatted = <<>>
    /\ formatter = "none"
    /\ videoUrl = NoUrl
    /\ videoId = ""
    /\ fetchPc = "idle"
    /\ fetches = 0
    /\ fetchResult = NoFetch
    /\ settled = Unsettled
    /\ apiKeys = <<>>
    /\ metadata = [title |-> <<"Video">>, duration |-> 0]
    /\ outputDurationMinutes = 0
    /\ Fresh
    /\ Mounted
    /\ NoUpload

run == << apiKeys, metadata, outputDurationMinutes, pc, currentState, emitted,
         currentKeyIdx, ai, primitive, results, plan, thrown, callbacks >>

FormatTime ==
    /\ formatter = "none"
    /\ formatted' = formatTime(seconds)
    /\ formatter' = "formatTime"
    /\ UNCHANGED << seconds, app, lookup, upload, run >>

FormatSeconds ==
    /\ formatter = "none"
    /\ formatted' = formatSeconds(seconds)
    /\ formatter' = "formatSeconds"
    /\ UNCHANGED << seconds, app, lookup, upload, run >>

TimeNext == FormatTime \/ FormatSeconds

SpecTime == TimeInit /\ [][TimeNext]_vars

-----------------------------------------------------------------------------
(* The metadata service: one call of fetchVideoMetadata, from its argument
   to the settling of the promise it returns.  A URL is what the code reads
   of it: whether new URL() accepts it, its host name, its v parameter, the
   segments of its path, and what the fallback pattern captures in its text *)

Url(parses, hostname, v, path, match) ==
    [parses |-> parses, hostname |-> hostname, v |-> v, path |-> path, match |-> match]

Urls ==
    { Url(TRUE, "www.youtube.com", "idA", << "watch" >>, ""),
      Url(TRUE, "music.youtube.com", "idA", << "watch" >>, ""),
      Url(TRUE, "www.youtube.com", "", << "shorts", "idB" >>, ""),
      Url(TRUE, "www.youtube.com", "", << "channel", "name" >>, ""),
      Url(TRUE, "youtu.be", "", << "idB" >>, ""),
      Url(TRUE, "youtu.be", "", <<>>, ""),
      Url(TRUE, "example.com", "idA", << "watch" >>, ""),
      Url(FALSE, "", "", <<>>, "idC"),
      Url(FALSE, "", "", <<>>, "") }

\* hostname.includes('youtube.com') || hostname.includes('music.youtube.com')
YoutubeHost(hostname) == hostname \in { "www.youtube.com", "music.youtube.com" }

\* pathname.includes('/shorts/')
ShortsPath(path) == \E k \in 1..(Len(path) - 1) : path[k] = "shorts"

\* pathname.split('/').filter(Boolean).pop() || null
LastSegment(path) == IF path = <<>> THEN "" ELSE path[Len(path)]

\* getVideoId; "" stands for null
getVideoId(url) ==
    IF url.parses
    THEN IF YoutubeHost(url.hostname) /\ url.v # "" THEN url.v
         ELSE IF YoutubeHost(url.hostname) /\ ShortsPath(url.path)
         THEN LastSegment(url.path)
         ELSE IF url.hostname = "youtu.be" THEN LastSegment(url.path)
         ELSE ""
    ELSE url.match

\* the durations a returned item can carry: none at all, a text without
\* "PT", or PT with each of the H, M and S groups present or not (-1)
Durations8601 ==
    { NoDuration, [present |-> TRUE, pt |-> FALSE, h |-> -1, m |-> -1, s |-> -1] }
        \cup { [present |-> TRUE, pt |-> TRUE, h |-> h, m |-> m, s |-> s]
                  : h \in {-1, 0, 1, 10}, m \in {-1, 0, 1, 59}, s \in {-1, 0, 59} }

OrZero(n) == IF n < 0 THEN 0 ELSE n

\* parseISO8601Duration
parseISO8601Duration(duration) ==
    IF ~duration.pt THEN [seconds |-> 0, formatted |-> << "0", "0", ":", "0", "0" >>]
    ELSE LET totalSeconds == OrZero(duration.h) * 3600 + OrZero(duration.m) * 60
                               + OrZero(duration.s)
         IN  [seconds |-> totalSeconds, formatted |-> formatSeconds(totalSeconds)]

\* what a call of fetch and the reading of its answer can produce
FetchResults ==
    { [kind |-> k, duration |-> NoDuration]
        : k \in { "network_error", "not_ok", "bad_json", "no_items", "empty_items",
                  "no_thumbnails" } }
      \cup { [kind |-> "item", duration |-> d] : d \in Durations8601 }

\* the statements of the try block that throw on this answer
Throws(r) == r.kind # "item" \/ ~r.duration.present

Resolved(id, title, info) ==
    [state |-> "resolved", videoId |-> id, title |-> title, duration |-> info.seconds,
     durationFormatted |-> info.formatted]

\* if (!videoId) return { videoId: 'invalid', ..., duration: 0, ... }
InvalidPlaceholder ==
    Resolved("invalid", "URL YouTube khong hop le",
             [seconds |-> 0, formatted |-> << "0", "0", ":", "0", "0" >>])

OnFailure_Rethrow(id) ==
    [state |-> "rejected", videoId |-> "", title |-> "", duration |-> 0,
     durationFormatted |-> <<>>]

OnFailure_Invalid(id) == InvalidPlaceholder

\* catch (error) { return { videoId: videoId, ..., duration: 0, ... } }
OnFailure(id) ==
    Resolved(id, "Tieu de Video (Khong the lay tu API)",
             [seconds |-> 0, formatted |-> << "N", "/", "A" >>])

MetaInit ==
    /\ videoUrl \in Urls
    /\ videoId = ""
    /\ fetchPc = "start"
    /\ fetches = 0
    /\ fetchResult = NoFetch
    /\ settled = Unsettled
    /\ seconds = 0
    /\ formatted = <<>>
    /\ formatter = "none"
    /\ apiKeys = <<>>
    /\ metadata = [title |-> <<"Video">>, duration |-> 0]
    /\ outputDurationMinutes = 0
    /\ Fresh
    /\ Mounted
    /\ NoUpload

\* const videoId = getVideoId(videoUrl); the early return, or the call of fetch
GetVideoId ==
    /\ fetchPc = "start"
    /\ videoId' = getVideoId(videoUrl)
    /\ IF videoId' = ""
       THEN /\ settled' = InvalidPlaceholder
            /\ fetchPc' = "returned"
            /\ UNCHANGED fetches
       ELSE /\ fetches' = fetches + 1
            /\ fetchPc' = "fetching"
            /\ UNCHANGED settled
    /\ UNCHANGED << videoUrl, fetchResult, app, clock, upload, run >>

\* the try block runs to its return
FetchSucceeds ==
    /\ fetchPc = "fetching"
    /\ \E r \in FetchResults :
          /\ ~Throws(r)
          /\ fetchResult' = r
          /\ settled' = Resolved(videoId, "Title", parseISO8601Duration(r.duration))
    /\ fetchPc' = "returned"
    /\ UNCHANGED << videoUrl, videoId, fetches, app, clock, upload, run >>

\* a statement of the try block throws: the catch block returns
FetchFails ==
    /\ fetchPc = "fetching"
    /\ \E r \in FetchResults :
          /\ Throws(r)
          /\ fetchResult' = r
          /\ settled' = OnFailure(videoId)
    /\ fetchPc' = "returned"
    /\ UNCHANGED << videoUrl, videoId, fetches, app, clock, upload, run >>

MetaNext == GetVideoId \/ FetchSucceeds \/ FetchFails

SpecMeta == MetaInit /\ [][MetaNext]_vars

-----------------------------------------------------------------------------
(* A local file submitted in the form: fetchFileMetadata measures it, an
   entry is pushed for it, the batch loop builds the metadata of the run from
   the entry and the run plans its chunks.  One credential; the model service
   answers every call at once *)

\* the files of the form: a video of 1..MaxDuration whole seconds, or a file
\* the video element cannot read
Files ==
    { [readable |-> TRUE, length |-> d] : d \in 1..MaxDuration }
        \cup { [readable |-> FALSE, length |-> 0] }

\* onloadedmetadata, onseeked: resolve with video.duration and the blob URL;
\* onerror: resolve with duration 0 and no blob URL
fetchFileMetadata(f) ==
    IF f.readable
    THEN [title |-> <<"File">>, duration |-> f.length, localBlobUrl |-> TRUE]
    ELSE [title |-> <<"Invalid">>, duration |-> 0, localBlobUrl |-> FALSE]

FileEntry_WithResult(m) ==
    [isLocalFile |-> TRUE, title |-> m.title, localBlobUrl |-> m.localBlobUrl,
     result |-> [NoJson EXCEPT !.isNull = FALSE,
                               !.video_meta.duration_sec = m.duration]]

\* initialEntries.push({ id, url, title, thumbnail_url, createdAt, status,
\* modelId, isLocalFile: true, localBlobUrl }): no duration and no result
FileEntry(m) ==
    [isLocalFile |-> TRUE, title |-> m.title, localBlobUrl |-> m.localBlobUrl,
     result |-> NoJson]

\* (entry.result?.video_meta.duration_sec) || 0
StoredDuration(e) == IF e.result.isNull THEN 0 ELSE e.result.video_meta.duration_sec

\* currentMeta of the batch loop: rebuilt from the entry when it is a local
\* file with a blob URL; else fetchVideoMetadata(entry.url), which finds no
\* video id in the file:// URL of an ordinary file name
currentMeta(e) ==
    IF e.isLocalFile /\ e.localBlobUrl
    THEN [title |-> e.title, duration |-> StoredDuration(e)]
    ELSE [title |-> <<"Invalid">>, duration |-> InvalidPlaceholder.duration]

\* the run has no metadata before the loop builds it
NoMetadata == [title |-> <<>>, duration |-> -1]

FileInit ==
    /\ apiKeys = SubSeq(Keys, 1, 1)
    /\ metadata = NoMetadata
    /\ outputDurationMinutes \in 0..MaxMinutes
    /\ Fresh
    /\ Mounted
    /\ Unused
    /\ file \in Files
    /\ meta = NoMeta
    /\ entry = NoEntry
    /\ filePc = "picked"

\* const meta = await fetchFileMetadata(file)
MeasureFile ==
    /\ filePc = "picked"
    /\ meta' = fetchFileMetadata(file)
    /\ filePc' = "measured"
    /\ UNCHANGED << app, clock, lookup, file, entry, run >>

PushEntry ==
    /\ filePc = "measured"
    /\ entry' = FileEntry(meta)
    /\ filePc' = "pushed"
    /\ UNCHANGED << app, clock, lookup, file, meta, run >>

\* the loop body up to the call of runAnalysis(currentMeta, ...)
BuildMeta ==
    /\ filePc = "pushed"
    /\ metadata' = currentMeta(entry)
    /\ filePc' = "running"
    /\ UNCHANGED << app, clock, lookup, file, meta, entry, apiKeys,
                    outputDurationMinutes, pc, currentState, emitted, currentKeyIdx,
                    ai, primitive, results, plan, thrown, callbacks >>

FileCheckKeys ==
    /\ filePc = "running"
    /\ CheckKeys

FileNext ==
    \/ MeasureFile \/ PushEntry \/ BuildMeta
    \/ FileCheckKeys
    \/ Step0Processing \/ Step0Complete
    \/ Step1Processing \/ Step1Complete
    \/ Step2Processing \/ Step2Complete
    \/ Step3Processing \/ Step3Complete
    \/ Step4Processing
    \/ PlanCallReturns
    \/ Step4Complete \/ Step5Processing
    \/ ChunkLoop \/ ChunkMerge
    \/ Normalize
    \/ Catch

SpecFile == FileInit /\ [][FileNext]_vars

-----------------------------------------------------------------------------
(* Runs of an hour and more: one credential, a model service that answers
   every call at once and keeps to the prompt, returning for each window one
   scene that starts where the window starts, its t0 written as formatTime
   writes it in the prompt *)

HourDurations == { 3590, 3720 }

HourInit ==
    /\ apiKeys = SubSeq(Keys, 1, 1)
    /\ metadata \in { [title |-> <<"Video">>, duration |-> d] : d \in HourDurations }
    /\ outputDurationMinutes = 0
    /\ Fresh
    /\ Mounted
    /\ NoUpload
    /\ Unused

\* the answer for chunk k; summary holds the chunk the scene came from
TimedPayload(k) ==
    [isNull |-> FALSE, video_meta |-> ReturnedMeta,
     scenes |-> << [scene_id |-> 1, t0 |-> formatTime(tStart(k)), summary |-> << k, 1 >>] >>,
     assets |-> <<>>, story_outline |-> NoOutline]

HourCallReturns ==
    /\ stage \in {"outline", "chunk"}
    /\ CallReturns({ [isNull |-> FALSE, title |-> <<"Outline">>] }, { TimedPayload(i) })

HourNext ==
    \/ CheckKeys
    \/ Step0Processing \/ Step0Complete
    \/ Step1Processing \/ Step1Complete
    \/ Step2Processing \/ Step2Complete
    \/ Step3Processing \/ Step3Complete
    \/ Step4Processing
    \/ HourCallReturns
    \/ Step4Complete \/ Step5Processing
    \/ ChunkLoop \/ ChunkMerge
    \/ Normalize
    \/ Step5Complete \/ Step6Complete \/ Step7Complete
    \/ Complete

SpecHour == HourInit /\ [][HourNext]_vars

-----------------------------------------------------------------------------
(* Callbacks that throw.  onStateUpdate is called at the end of updateStep
   and onComplete as the last statement of the try block, so an exception
   of either reaches the catch block of runAnalysis; an exception of the
   onStateUpdate call made by the catch block itself leaves runAnalysis.
   One credential, and a model service that answers every call at once *)

ThrowInit ==
    /\ apiKeys = SubSeq(Keys, 1, 1)
    /\ metadata \in { [title |-> <<"Video">>, duration |-> d] : d \in Durations }
    /\ outputDurationMinutes = 0
    /\ Fresh
    /\ Mounted
    /\ NoUpload
    /\ Unused

CallbackError == Error(<<"Callback", "Failed">>)

\* the last statement executed was an updateStep call of the try block
AfterUpdateStep ==
    \/ pc \in { "step0c", "step1", "step1c", "step2", "step2c", "step3", "step3c",
                 "step4", "step5", "step6c", "step7c", "complete" }
    \/ pc = "gen_call" /\ stage = "outline" /\ attempt = 0
    \/ pc = "chunk_loop" /\ i = 0 /\ windows = <<>>

\* the onStateUpdate call of that updateStep throws instead of returning
onStateUpdateThrows ==
    /\ AfterUpdateStep
    /\ thrown' = CallbackError
    /\ pc' = "catch"
    /\ UNCHANGED << inputs, currentState, emitted, currentKeyIdx, ai, primitive,
                    results, plan, callbacks >>

\* onComplete(finalJson) is entered and throws
onCompleteThrows ==
    /\ pc = "complete"
    /\ completed' = Append(completed, finalJson)
    /\ thrown' = CallbackError
    /\ pc' = "catch"
    /\ UNCHANGED << inputs, currentState, emitted, currentKeyIdx, ai, primitive,
                    results, plan, hookCalls >>

\* the onStateUpdate call of the catch block's updateStep throws: the
\* exception leaves runAnalysis and its promise rejects
onStateUpdateThrowsInCatch ==
    /\ pc = "failed"
    /\ thrown' = CallbackError
    /\ pc' = "rejected"
    /\ UNCHANGED << inputs, currentState, emitted, currentKeyIdx, ai, primitive,
                    results, plan, callbacks >>

ThrowNext ==
    \/ CheckKeys
    \/ Step0Processing \/ Step0Complete
    \/ Step1Processing \/ Step1Complete
    \/ Step2Processing \/ Step2Complete
    \/ Step3Processing \/ Step3Complete
    \/ Step4Processing
    \/ HourCallReturns
    \/ Step4Complete \/ Step5Processing
    \/ ChunkLoop \/ ChunkMerge
    \/ Normalize
    \/ Step5Complete \/ Step6Complete \/ Step7Complete
    \/ Complete
    \/ Catch
    \/ onStateUpdateThrows \/ onCompleteThrows \/ onStateUpdateThrowsInCatch

SpecThrow == ThrowInit /\ [][ThrowNext]_vars

-----------------------------------------------------------------------------
(* Properties *)

steps == currentState.steps
cursor == currentState.currentStep
StepIds == 0..(NumSteps - 1)

KeysExhaustedAtChunk ==
    /\ stage = "chunk"
    /\ thrown.kind = "QuotaError"
    /\ pc \in {"catch", "failed"}

GaveUp(e) == e.kind = "Error" /\ includes(e.message, "retries:")

\* C1: when a chunk call raises QuotaError and no credential is left, the
\* exhaustion hook has been invoked exactly once before the run can fail.
C1_HookInvokedOnExhaustion == KeysExhaustedAtChunk => hookCalls = 1

C3_RotateSameChunk ==
    [][ (pc = "chunk_catch" /\ thrown.kind = "QuotaError"
         /\ currentKeyIdx + 1 < Len(apiKeys))
        => /\ pc' = "gen_call"
           /\ stage' = "chunk"
           /\ attempt' = 0
           /\ currentKeyIdx' = currentKeyIdx + 1
           /\ ai' = apiKeys[currentKeyIdx + 2]
           /\ i' = i
           /\ numChunks' = numChunks
           /\ targetDurationSeconds' = targetDurationSeconds
           /\ storyOutline' = storyOutline
           /\ finalJson' = finalJson
           /\ allAssets' = allAssets
           /\ hookCalls' = hookCalls
           /\ currentState' = currentState
           /\ \A s \in StepIds : steps[s].status # "error"
      ]_vars

C3_Witness ==
    /\ pc = "chunk_merge"
    /\ i = 1
    /\ currentKeyIdx = 1
    /\ ai = apiKeys[2]
    /\ hookCalls = 0
    /\ steps[5].status = "processing"

\* C4: a run never ends in error on a QuotaError while an unused credential
\* is still in the pool, whichever AI stage raised it.
C4_NoQuotaFailureWithSpareKey ==
    (pc = "failed" /\ thrown.kind = "QuotaError")
        => ~(currentKeyIdx + 1 < Len(apiKeys))

\* C5: a run that fails because every credential is exhausted for a chunk
\* fails as the result of the hook resolving to none: the hook was awaited,
\* step 5 carries the reason, no later step started, onComplete not invoked.
C5_DeclineFailsRun ==
    (pc = "failed" /\ stage = "chunk" /\ thrown.kind = "QuotaError")
        => /\ hookCalls >= 1
           /\ steps[5].status = "error"
           /\ steps[5].error = <<"quota", "reached">>
           /\ \A s \in 6..(NumSteps - 1) : steps[s].status = "pending"
           /\ completed = <<>>

\* C6: in every emitted state at most one step is processing and every step
\* below the cursor is complete or error.
C6_OneProcessingPrefixTerminal ==
    /\ Cardinality({s \in StepIds : steps[s].status = "processing"}) <= 1
    /\ \A s \in StepIds : s < cursor => steps[s].status \in {"complete", "error"}

C6_Witness ==
    /\ cursor = 5
    /\ steps[5].status = "processing"
    /\ steps[5].output.tag = "retry"
    /\ \A s \in 0..4 : steps[s].status = "complete"

Lifecycle(old, new) ==
    \/ new = old
    \/ old = "pending" /\ new = "processing"
    \/ old = "processing" /\ new \in {"complete", "error"}

\* C7 as stated: in every run, the empty credential list included, each step
\* goes pending -> processing -> (complete | error).
C7_LifecycleEveryRun ==
    [][ \A s \in StepIds : Lifecycle(steps[s].status, steps'[s].status) ]_vars

\* C7 amended: each step goes pending -> processing -> (complete | error),
\* except that a run started with an empty credential list puts step 0 from
\* pending directly to error.
C7_LifecycleWithKeys ==
    [][ \A s \in StepIds :
           \/ Lifecycle(steps[s].status, steps'[s].status)
           \/ /\ Len(apiKeys) = 0
              /\ s = 0
              /\ steps[s].status = "pending"
              /\ steps'[s].status = "error" ]_vars

C7_Witness ==
    /\ pc = "failed"
    /\ Len(apiKeys) > 0
    /\ cursor = 4
    /\ steps[4].status = "error"
    /\ \A s \in 0..3 : steps[s].status = "complete"
    /\ \A s \in 5..(NumSteps - 1) : steps[s].status = "pending"

\* C8: a failure sets the step at the cursor to error with the lowercased
\* message, emits that state and halts: the cursor stays, every other step
\* keeps status and output, the failing step keeps its output, no later step
\* is started and nothing (no model call in particular) happens afterwards.
C8_FailureHalts ==
    [][ /\ pc # "failed"
        /\ (pc \in {"catch", "chunk_catch"} /\ thrown.kind # "none")
              => pc' \in {"catch", "failed", "gen_call"}
        /\ (pc = "chunk_catch" /\ pc' = "gen_call")
              => (thrown.kind = "QuotaError" /\ currentKeyIdx + 1 < Len(apiKeys))
        /\ (pc = "catch")
              => /\ pc' = "failed"
                 /\ cursor' = cursor
                 /\ steps'[cursor].status = "error"
                 /\ steps'[cursor].error = LowerText(thrown.message)
                 /\ steps'[cursor].output = steps[cursor].output
                 /\ \A s \in StepIds \ {cursor} : steps'[s] = steps[s]
                 /\ \A s \in StepIds : s > cursor => steps'[s].status = "pending"
                 /\ completed' = completed
      ]_vars

C8_Witness ==
    /\ pc = "failed"
    /\ thrown.message = <<"Bad", "Request">>
    /\ cursor = 5
    /\ steps[5].status = "error"
    /\ steps[5].error = <<"bad", "request">>
    /\ i = 1

AllComplete == \A s \in StepIds : steps[s].status = "complete"

\* C9: onComplete is invoked exactly once in a run that succeeds, with the
\* merged and normalized result and only after all 8 steps are complete,
\* and not at all in a run that ends with a step in error.
C9_CompleteOnceOnSuccess ==
    /\ Len(completed) <= 1
    /\ (pc = "done") => Len(completed) = 1
    /\ (Len(completed) = 1)
          => /\ AllComplete
             /\ completed[1] = finalJson
             /\ completed[1].story_outline = storyOutline
             /\ completed[1].assets = allAssets
             /\ Len(completed[1].scenes) > 0
    /\ (\E s \in StepIds : steps[s].status = "error") => completed = <<>>
    /\ (pc # "done") => completed = <<>>

C9_Witness ==
    /\ pc = "done"
    /\ Len(completed) = 1
    /\ Len(completed[1].scenes) = 2 * MaxScenes

TagBefore(a, b) == a[1] < b[1] \/ (a[1] = b[1] /\ a[2] < b[2])

SortedRenumbered(sc) ==
    /\ \A k \in 1..Len(sc) : sc[k].scene_id = k
    /\ \A k \in 1..(Len(sc) - 1) : localeCompare(sc[k].t0, sc[k + 1].t0) <= 0
    /\ \A k, l \in 1..Len(sc) :
          (k < l /\ sc[k].t0 = sc[l].t0) => TagBefore(sc[k].summary, sc[l].summary)

\* C10: after a successful run the scene ids are 1..n in array order, the
\* array is non-decreasing by t0 under the string comparison of the sort, and
\* scenes of equal t0 keep their merge order.
C10_ScenesSortedDense ==
    /\ (pc \in {"step5c", "step6c", "step7c", "complete", "done"})
          => SortedRenumbered(finalJson.scenes)
    /\ \A c \in 1..Len(completed) : SortedRenumbered(completed[c].scenes)

C10_Witness ==
    /\ pc = "done"
    /\ LET sc == completed[1].scenes
       IN  /\ Len(sc) >= 3
           /\ \E k, l \in 1..Len(sc) :
                 k < l /\ sc[k].t0 = sc[l].t0 /\ sc[k].summary[1] # sc[l].summary[1]
           /\ \E k, l \in 1..Len(sc) : k < l /\ TagBefore(sc[l].summary, sc[k].summary)

AfterNormalize == pc \in {"step5c", "step6c", "step7c", "complete", "done"}

\* a is log without the entries that have no id and without every entry that
\* a later entry of the same id follows
DedupedLast(a, log) ==
    /\ \A p, q \in 1..Len(a) : p # q => a[p].id # a[q].id
    /\ { a[p].id : p \in 1..Len(a) }
          = { log[n].id : n \in 1..Len(log) } \ { "" }
    /\ \A p \in 1..Len(a) :
          \E n \in 1..Len(log) :
              /\ log[n] = a[p]
              /\ \A m \in (n + 1)..Len(log) : log[m].id # a[p].id

\* C11: the assets of the final result, and of every delivered result, hold
\* exactly one entry per distinct non-empty id the chunks emitted, and that
\* entry is the last one emitted with the id (a later chunk, or a later
\* position in the same chunk, wins).
C11_AssetsLastWriteWins ==
    /\ AfterNormalize => DedupedLast(finalJson.assets, emittedAssets)
    /\ \A c \in 1..Len(completed) :
          DedupedLast(completed[c].assets, emittedAssets)

\* both chunks emitted A1, the first one twice, and the result was delivered
C11_Witness ==
    /\ pc = "done"
    /\ Len(emittedAssets) = 5
    /\ emittedAssets[1].id = "A1" /\ emittedAssets[3].id = "A1"
    /\ emittedAssets[5].id = "A1"
    /\ emittedAssets[4].id = ""
    /\ completed[1].assets =
          << [id |-> "A1", type |-> "prop", description |-> <<1, 2>>],
             [id |-> "A2", type |-> "prop", description |-> <<0, 2>>] >>

NoScenesFailure == thrown.kind = "Error" /\ thrown.message = NoResultMessage

\* C12: when the merged scene list is empty after all chunks (every chunk
\* returned nothing or no scenes), the run raises the no-result error instead
\* of going on: step index 5 ends in error, step indices 6 and 7 stay
\* pending, onComplete is not invoked, and no result with an empty scene list
\* is ever delivered.
C12_EmptyResultFails ==
    [][ /\ (pc = "normalize" /\ (finalJson.isNull \/ finalJson.scenes = <<>>))
              => (pc' = "catch" /\ NoScenesFailure' /\ completed' = <<>>)
        /\ (pc = "catch" /\ NoScenesFailure)
              => /\ pc' = "failed"
                 /\ steps'[5].status = "error"
                 /\ steps'[6].status = "pending"
                 /\ steps'[7].status = "pending"
                 /\ completed' = <<>>
        /\ \A c \in 1..Len(completed') : completed'[c].scenes # <<>>
      ]_vars

\* two chunks were merged, neither brought a scene, and the run has failed
C12_Witness ==
    /\ pc = "failed"
    /\ NoScenesFailure
    /\ i = 2
    /\ ~finalJson.isNull
    /\ finalJson.scenes = <<>>
    /\ steps[5].status = "error"
    /\ completed = <<>>

LoopDone == pc \in {"normalize", "catch", "failed"} /\ stage = "chunk"
Width(w) == w.tEnd - w.tStart

\* C13: for every target duration d the chunk loop asks for ceil(d / 120)
\* windows; window k (from 0) is [120 k, min(120 (k + 1), d)); the windows
\* are consecutive and do not overlap, each is at most 120 s wide and not
\* empty, only the last may be shorter than 120 s, and together they cover
\* exactly [0, d).
C13_WindowsPartitionTarget ==
    LET d == targetDurationSeconds
        n == Len(windows)
    IN  /\ \A k \in 1..n :
              /\ windows[k].tStart = CHUNK_SIZE * (k - 1)
              /\ windows[k].tEnd = IF CHUNK_SIZE * k < d THEN CHUNK_SIZE * k ELSE d
              /\ Width(windows[k]) > 0
              /\ Width(windows[k]) <= CHUNK_SIZE
              /\ k < n => /\ Width(windows[k]) = CHUNK_SIZE
                          /\ windows[k + 1].tStart = windows[k].tEnd
        /\ LoopDone =>
              /\ d > 0
              /\ CHUNK_SIZE * n >= d
              /\ CHUNK_SIZE * (n - 1) < d
              /\ windows[1].tStart = 0
              /\ windows[n].tEnd = d

\* the loop has planned a 250 s target: two full windows and one of 10 s
C13_Witness ==
    /\ LoopDone
    /\ targetDurationSeconds = 250
    /\ Len(windows) = 3
    /\ windows[3].tStart = 240
    /\ windows[3].tEnd = 250

\* C14: the scene count requested for a window is ceil(window length / 5);
\* a 300 s target gives the windows [0,120), [120,240), [240,300) with 24, 24
\* and 12 scenes.
C14_ScenesPerWindow ==
    /\ \A k \in 1..Len(windows) :
          /\ density * windows[k].scenes >= Width(windows[k])
          /\ density * (windows[k].scenes - 1) < Width(windows[k])
    /\ (LoopDone /\ targetDurationSeconds = 300) =>
          windows = << [tStart |-> 0, tEnd |-> 120, scenes |-> 24],
                       [tStart |-> 120, tEnd |-> 240, scenes |-> 24],
                       [tStart |-> 240, tEnd |-> 300, scenes |-> 12] >>

\* a video of unknown duration (the 300 s fallback) has been planned
C14_Witness ==
    /\ LoopDone
    /\ metadata.duration = 0
    /\ outputDurationMinutes = 0
    /\ targetDurationSeconds = 300
    /\ Len(windows) = 3
    /\ windows[3].scenes = 12

\* C15: for every target duration d > 0 the estimate shown when step index 2
\* completes is max(10, ceil(d / 5)).
C15_FirstPassEstimate ==
    steps[2].status = "complete" =>
        LET d == targetDurationSeconds
            n == steps[2].output.n
        IN  /\ d > 0
            /\ steps[2].output.tag = "detected"
            /\ n = sceneCount
            /\ n >= MinSceneCount
            /\ density * n >= d
            /\ n = MinSceneCount \/ density * (n - 1) < d

\* the estimate for a 301 s video is 61, for a 45 s video it would be 10
C15_Witness ==
    /\ pc = "step3"
    /\ targetDurationSeconds = 301
    /\ steps[2].status = "complete"
    /\ steps[2].output.n = 61

InPrimitive == pc \in {"gen_call", "gen_try"}
Failed(a) == a.kind \in {"rejected", "empty", "unparseable"}
QuotaText(msg) == includes(LowerText(msg), "quota") \/ includes(LowerText(msg), "429")
TransientText(msg) ==
    \/ includes(LowerText(msg), "503")
    \/ includes(LowerText(msg), "unavailable")
    \/ includes(LowerText(msg), "overloaded")
GiveUpMessage(reason) ==
    <<"AI", "error", "after", ToString(maxRetries), "retries:">> \o LowerText(reason)

\* C16: one invocation of the primitive makes at most maxRetries + 1 model
\* calls and returns as soon as a call succeeds; when maxRetries + 1 calls
\* have failed with a transient reason it raises a generic (non-Quota) error
\* whose message embeds the last failure's reason, after exactly maxRetries
\* retry notifications, and it raises that error in no other case.
C16_BoundedCallsThenGiveUp ==
    [][ /\ (pc = "gen_call") => calls <= maxRetries
        /\ (pc = "gen_call" /\ response'.kind = "value") => ~InPrimitive'
        /\ (pc = "gen_try" /\ calls = maxRetries + 1)
              => /\ ~InPrimitive'
                 /\ Len(notes) = maxRetries
                 /\ TransientText(response.message)
                 /\ thrown' = Error(GiveUpMessage(response.message))
                 /\ currentState' = currentState
        /\ (pc = "gen_try" /\ ~InPrimitive') => calls = maxRetries + 1
        /\ (pc = "gen_try" /\ calls <= maxRetries) => pc' = "gen_call"
      ]_vars

\* the outline call failed four times with "Model Overloaded" and gave up
C16_Witness ==
    /\ pc = "catch"
    /\ stage = "outline"
    /\ response = Rejected(<<"Model", "Overloaded">>)
    /\ thrown = Error(<<"AI", "error", "after", "3", "retries:", "model", "overloaded">>)

\* C17: when a call succeeds after k transient failures (0 <= k <=
\* maxRetries), the primitive returns at that call, the retry callback has
\* been invoked exactly k times, with the attempt numbers 1..k in order and
\* strictly increasing delays.
C17_RetriesNotifiedInOrder ==
    [][ (pc = "gen_call" /\ response'.kind = "value")
        => /\ ~InPrimitive'
           /\ thrown' = thrown
           /\ calls \in 0..maxRetries
           /\ Len(notes) = calls
           /\ \A n \in 1..Len(notes) : notes[n].attempt = n
           /\ \A n \in 1..(Len(notes) - 1) : notes[n].delay < notes[n + 1].delay
      ]_vars

\* the call for the second chunk returned a value after a retry notification
C17_Witness ==
    /\ pc = "chunk_merge"
    /\ i = 1
    /\ response = Value
    /\ ~chunkData.isNull
    /\ steps[5].output.tag = "retry"
    /\ steps[5].output.n = 2

\* C18: a call that fails with a reason containing 'quota' or '429', on any
\* attempt and also when the reason holds a transient keyword too, makes the
\* primitive raise QuotaError at once: the invocation ends in that step, with
\* no retry notification and nothing emitted.
C18_QuotaRaisedAtOnce ==
    [][ (pc = "gen_call" /\ Failed(response') /\ QuotaText(response'.message))
        => /\ ~InPrimitive'
           /\ thrown' = QuotaError(<<"Quota", "Reached">>)
           /\ pc' = IF stage = "chunk" THEN "chunk_catch" ELSE "catch"
           /\ currentState' = currentState
           /\ notes' = <<>>
      ]_vars

\* a retried chunk call failed with "429 Overloaded" and QuotaError is in flight
C18_Witness ==
    /\ pc = "chunk_catch"
    /\ thrown.kind = "QuotaError"
    /\ response = Rejected(<<"429", "Overloaded">>)
    /\ steps[5].output.tag = "retry"

\* C19: a call that fails with a reason that is neither quota nor transient,
\* and likewise a call that answers with no text or with text that does not
\* parse as JSON, makes the primitive rethrow that failure at its first
\* occurrence: no retry, no sleep, no notification.
C19_OtherFailuresRethrown ==
    [][ (/\ pc = "gen_call"
         /\ Failed(response')
         /\ \/ response'.kind \in {"empty", "unparseable"}
            \/ ~QuotaText(response'.message) /\ ~TransientText(response'.message))
        => /\ ~InPrimitive'
           /\ thrown' = Error(response'.message)
           /\ currentState' = currentState
      ]_vars

Executing == { b \in Batches : batches[b].pc = "running" }

\* C20: at any time at most one analysis run is executing: across
\* submissions, presses of the new-analysis button while a batch is
\* processing, and runs finishing, no run is started while a run of the same
\* or an earlier batch has not settled.
C20_OneRunInFlight == Cardinality(Executing) <= 1

\* the positions from which the next statement of the run is an updateStep call
AtUpdateStep ==
    \/ pc \in {"step0", "step0c", "step1", "step1c", "step2", "step2c", "step3",
               "step3c", "step4", "step4c", "step5", "step5c", "step6c", "step7c",
               "catch"}
    \/ pc = "gen_try" /\ stage = "chunk" /\ attempt <= maxRetries

\* C21: every updateStep call hands the state to onStateUpdate once, after
\* the mutation is applied (the state handed over is the mutated one), and
\* nothing else mutates or emits the state; a retry notification of the
\* chunk loop emits a state whose cursor is still 5 with step 5 still
\* processing, in which only the output text of step 5 may differ from the
\* state before.
C21_EmitOncePerUpdate ==
    [][ /\ AtUpdateStep => emitted' = << currentState' >>
        /\ ~AtUpdateStep => (emitted' = emitted /\ currentState' = currentState)
        /\ (pc = "gen_try" /\ pc' = "gen_call" /\ stage = "chunk")
              => /\ cursor = 5
                 /\ steps[5].status = "processing"
                 /\ emitted'[1].currentStep = 5
                 /\ emitted'[1].steps[5].status = "processing"
                 /\ emitted'[1].steps[5].error = steps[5].error
                 /\ emitted'[1].steps[5].output
                       = Out("retry", i + 1, LowerText(response.message))
                 /\ \A s \in StepIds \ {5} : emitted'[1].steps[s] = steps[s]
      ]_vars

\* the second retry notification of the first chunk has been emitted
C21_Witness ==
    /\ pc = "gen_call"
    /\ stage = "chunk"
    /\ attempt = 2
    /\ i = 0
    /\ emitted = << currentState >>
    /\ cursor = 5
    /\ steps[5].output.tag = "retry"

LastStep == NumSteps - 1
Completes(s) == steps[s].status # "complete" /\ steps'[s].status = "complete"

\* C24: the update that completes step s < 7 also sets step s + 1 to
\* processing and moves the cursor to s + 1, so the emitted state in which
\* step s is first complete already shows step s + 1 processing, and no
\* emitted state shows a complete step followed by a pending one; the update
\* that completes the last step leaves the cursor and every other step as
\* they were.
C24_CompleteStartsNext ==
    [][ /\ \A s \in StepIds \ {LastStep} :
              /\ Completes(s)
                    => /\ emitted' = << currentState' >>
                       /\ steps'[s + 1].status = "processing"
                       /\ cursor' = s + 1
                       /\ \A t \in StepIds \ {s, s + 1} : steps'[t] = steps[t]
              /\ steps'[s].status = "complete" => steps'[s + 1].status # "pending"
        /\ Completes(LastStep)
              => /\ emitted' = << currentState' >>
                 /\ cursor' = cursor
                 /\ \A t \in StepIds \ {LastStep} : steps'[t] = steps[t]
      ]_vars

\* the last step has just been completed; the cursor is still on it
C24_Witness ==
    /\ pc = "complete"
    /\ AllComplete
    /\ cursor = LastStep
    /\ emitted = << currentState >>
    /\ completed = <<>>

ExpectedMeta ==
    [title |-> IF storyOutline.title = <<>> THEN metadata.title
               ELSE storyOutline.title,
     duration_sec |-> targetDurationSeconds]

\* C25: the first chunk that brings a payload seeds the result (its scenes,
\* with video_meta replaced by the outline's title, or the source title when
\* the outline has none, and the target duration); every later payload's
\* scenes are appended after the scenes merged so far and leave video_meta
\* alone; the final and the delivered result carry that video_meta, whatever
\* video_meta the chunks returned.
C25_SeedThenAppend ==
    [][ /\ (pc = "chunk_merge" /\ ~chunkData.isNull /\ finalJson.isNull)
              => /\ ~finalJson'.isNull
                 /\ finalJson'.scenes = chunkData.scenes
                 /\ finalJson'.video_meta = ExpectedMeta
        /\ (pc = "chunk_merge" /\ ~chunkData.isNull /\ ~finalJson.isNull)
              => /\ finalJson'.scenes = finalJson.scenes \o chunkData.scenes
                 /\ finalJson'.video_meta = finalJson.video_meta
        /\ (pc = "chunk_merge" /\ chunkData.isNull) => finalJson' = finalJson
        /\ (pc = "chunk_merge") => (i' = i + 1 /\ pc' = "chunk_loop")
        /\ AfterNormalize' => finalJson'.video_meta = ExpectedMeta'
        /\ \A c \in 1..Len(completed') : completed'[c].video_meta = ExpectedMeta'
      ]_vars

\* a delivered result with scenes of both chunks, titled after the source
\* because the outline had no title
C25_Witness ==
    /\ pc = "done"
    /\ storyOutline.title = <<>>
    /\ completed[1].video_meta = [title |-> <<"Video">>, duration_sec |-> 130]
    /\ \E p, q \in 1..Len(completed[1].scenes) :
          /\ completed[1].scenes[p].summary[1] = 0
          /\ completed[1].scenes[q].summary[1] = 1

\* C26: retry attempt n >= 1 starts with onRetry(n, delay, lowercased reason
\* of the previous failure) followed by sleep(delay), and only then comes the
\* model call; delay = min(30000, 3000 * 2^(n-1) + j) with 0 <= j < 1000.
\* The first attempt (n = 0) is made with no callback and no sleep.
C26_NotifyThenSleepThenCall ==
    [][ /\ (pc = "gen_try" /\ pc' = "gen_call")
              => LET n == attempt
                     raw == BackoffBase * 2^(n - 1)
                     note == retryNote'
                 IN  /\ n >= 1
                     /\ attempt' = n
                     /\ note.attempt = n
                     /\ note.reason = LowerText(response.message)
                     /\ note.slept = note.delay
                     /\ note.delay <= BackoffCap
                     /\ note.delay <= raw + JitterSpan - 1
                     /\ note.delay >= (IF raw < BackoffCap THEN raw ELSE BackoffCap)
                     /\ notes' = Append(notes, [attempt |-> n, delay |-> note.delay])
                     /\ calls' = calls
        /\ (pc' = "gen_call" /\ attempt' = 0)
              => (retryNote' = NoNote /\ notes' = <<>>)
        /\ (pc' = "gen_call" /\ attempt' >= 1)
              => (retryNote'.attempt = attempt' /\ Len(notes') = attempt')
      ]_vars

\* the third retry of the outline call was announced with the longest delay
C26_Witness ==
    /\ pc = "gen_call"
    /\ stage = "outline"
    /\ attempt = 3
    /\ retryNote = [attempt |-> 3, delay |-> 12999,
                    reason |-> <<"model", "overloaded">>, slept |-> 12999]

CallsPerInvocation == maxRetries + 1
PlannedChunks == NumChunks(TargetDuration(outputDurationMinutes, metadata.duration))
Positive(n) == IF n > 0 THEN n ELSE 0
SpareKeys == Len(apiKeys) - 1 - currentKeyIdx

\* the claimed bound on the model calls of a whole run
CallBound ==
    CallsPerInvocation + CallsPerInvocation * (PlannedChunks + Len(apiKeys) - 1)

\* the model calls the run can still make from the current state
Budget ==
    CASE pc \in {"start", "step0", "step0c", "step1", "step1c", "step2", "step2c",
                 "step3", "step3c", "step4"}
             -> CallBound
      [] pc \in {"gen_call", "gen_try"} /\ stage = "outline"
             -> Positive(CallsPerInvocation - calls)
                  + CallsPerInvocation * (PlannedChunks + Len(apiKeys) - 1)
      [] pc \in {"step4c", "step5"}
             -> CallsPerInvocation * (PlannedChunks + Len(apiKeys) - 1)
      [] pc = "chunk_loop"
             -> CallsPerInvocation * Positive(numChunks - i + SpareKeys)
      [] pc \in {"gen_call", "gen_try"} /\ stage = "chunk"
             -> Positive(CallsPerInvocation - calls)
                  + CallsPerInvocation * Positive(numChunks - i - 1 + SpareKeys)
      [] pc \in {"chunk_catch", "chunk_merge"}
             -> CallsPerInvocation * Positive(numChunks - i - 1 + SpareKeys)
      [] OTHER -> 0

\* position of the control point among the statements that make no call
Position ==
    CASE pc = "start" -> 30
      [] pc = "step0" -> 29
      [] pc = "step0c" -> 28
      [] pc = "step1" -> 27
      [] pc = "step1c" -> 26
      [] pc = "step2" -> 25
      [] pc = "step2c" -> 24
      [] pc = "step3" -> 23
      [] pc = "step3c" -> 22
      [] pc = "step4" -> 21
      [] pc = "step4c" -> 18
      [] pc = "step5" -> 17
      [] pc = "chunk_merge" -> 16
      [] pc = "chunk_loop" -> 15
      [] pc = "gen_try" -> 14
      [] pc = "chunk_catch" -> 13
      [] pc = "gen_call" -> 12
      [] pc = "normalize" -> 11
      [] pc = "step5c" -> 10
      [] pc = "step6c" -> 9
      [] pc = "step7c" -> 8
      [] pc = "complete" -> 7
      [] pc = "catch" -> 6
      [] OTHER -> 0

\* decreases with every statement of the run
Rank == 100 * Budget + Position

\* C29: with every model call returning and every callback returning, a run
\* terminates, and it makes at most 4 + 4 * (numChunks + K - 1) model calls
\* (K credentials): the call budget starts at that bound, every model call
\* uses up at least one unit of it, no statement refills it and it never
\* goes below zero; every statement of the run decreases a rank that is
\* never negative, so no run goes on for ever.
C29_BoundedCallsAndTermination ==
    [][ /\ (pc = "start") => (Budget = CallBound)
        /\ (pc \notin {"start", "catch", "failed"}) => numChunks' \in {0, PlannedChunks}
        /\ Budget' >= 0
        /\ Budget' <= Budget
        /\ (pc = "gen_call") => Budget' < Budget
        /\ (pc' = "gen_call" /\ pc # "gen_call") => Budget' > 0
        /\ Rank' >= 0
        /\ Rank' < Rank
      ]_vars

\* the last call the bound allows: second chunk, second credential, attempt 3
C29_Witness ==
    /\ pc = "gen_call"
    /\ stage = "chunk"
    /\ i = 1
    /\ numChunks = 2
    /\ currentKeyIdx = 1
    /\ Len(apiKeys) = 2
    /\ calls = 3
    /\ Budget = 1

\* C30: the credential index is 0 when the run makes its first call, it
\* changes only by going up by one, and only in the chunk stage's handler of
\* a QuotaError (never reset, never wrapping); every model call is made with
\* the client of apiKeys[currentKeyIdx], and 0 <= currentKeyIdx < K there.
C30_KeyIndexMonotone ==
    [][ /\ (pc = "start") => (currentKeyIdx' = 0)
        /\ currentKeyIdx' \in {currentKeyIdx, currentKeyIdx + 1}
        /\ (currentKeyIdx' # currentKeyIdx)
              => /\ pc = "chunk_catch"
                 /\ stage = "chunk"
                 /\ thrown.kind = "QuotaError"
        /\ (pc = "gen_call")
              => /\ currentKeyIdx \in 0 .. (Len(apiKeys) - 1)
                 /\ ai = apiKeys[currentKeyIdx + 1]
        /\ (pc = "gen_call" /\ stage = "outline") => (currentKeyIdx = 0)
      ]_vars

\* a call about to be made with the second credential, after a rotation
C30_Witness ==
    /\ pc = "gen_call"
    /\ stage = "chunk"
    /\ currentKeyIdx = 1
    /\ ai = apiKeys[2]
    /\ i = 1

HasHourField(text) == Cardinality({ k \in 1..Len(text) : text[k] = ":" }) = 2

\* C22: for every whole number of seconds s >= 0, reading the timestamp that
\* formatTime or formatSeconds writes for s gives s back, and the timestamp
\* has no hour field exactly when s < 3600.
C22_FormatRoundTrips ==
    (formatter # "none")
        => /\ parse(formatted) = seconds
           /\ HasHourField(formatted) <=> (seconds >= 3600)

\* one hour, one minute and five seconds, written with its hour field
C22_Witness ==
    /\ formatter = "formatTime"
    /\ seconds = 3665
    /\ formatted = << "0", "1", ":", "0", "1", ":", "0", "5" >>

\* C28: the promise of fetchVideoMetadata never rejects.  With no video id
\* in the URL it resolves to the 'invalid' placeholder, duration 0, and fetch
\* is never called; when the lookup fails (network error, non-OK answer, no
\* item in the answer) it resolves to a placeholder that keeps the extracted
\* video id and has duration 0.
C28_MetadataNeverRejects ==
    /\ settled.state # "rejected"
    /\ (fetchPc = "returned") => (settled.state = "resolved")
    /\ (fetchPc = "returned" /\ getVideoId(videoUrl) = "")
          => /\ settled.videoId = "invalid"
             /\ settled.duration = 0
             /\ fetches = 0
             /\ fetchResult = NoFetch
    /\ (fetchPc = "returned" /\ fetchResult.kind \notin {"none", "item"})
          => /\ getVideoId(videoUrl) # ""
             /\ settled.videoId = getVideoId(videoUrl)
             /\ settled.duration = 0
             /\ fetches = 1

\* a lookup answered with a non-OK status, for an id taken from a shorts path
C28_Witness ==
    /\ fetchPc = "returned"
    /\ fetchResult.kind = "not_ok"
    /\ videoUrl.path = << "shorts", "idB" >>
    /\ settled.state = "resolved"
    /\ settled.videoId = "idB"
    /\ settled.duration = 0

\* the second at which a scene of a timed answer starts
StartSecond(scene) == tStart(scene.summary[1])

\* C23: when every scene's t0 is the timestamp formatTime writes for its
\* start second, the scene list handed to onComplete is in chronological
\* order (start seconds never decrease along the array), whatever the target
\* duration, an hour and more included.
C23_ChronologicalOrder ==
    (pc = "done")
        => LET sc == completed[1].scenes
           IN  (\A k \in 1..Len(sc) : sc[k].t0 = formatTime(StartSecond(sc[k])))
                  => \A k \in 1..(Len(sc) - 1) :
                        StartSecond(sc[k]) <= StartSecond(sc[k + 1])

\* C27: the displayed state is discarded on reset and written only by the
\* current run: from handleReset until the user starts a new analysis (the
\* App is 'idle' all that time) analysisState, analysisResult and
\* videoMetadata are null, so a run started before the reset writes neither
\* its states nor its result into them.
C27_ResetDiscardsView ==
    (appStatus = "idle")
        => /\ analysisState = <<>>
           /\ analysisResult = <<>>
           /\ videoMetadata = <<>>

\* steps before the cursor are complete, steps after it are pending
CursorSplits(state) ==
    \A k \in StepIds :
        /\ (k < state.currentStep) => (state.steps[k].status = "complete")
        /\ (k > state.currentStep) => (state.steps[k].status = "pending")

\* C31: in every state handed to onStateUpdate every step below currentStep
\* is complete and every step above it is pending, and from one emitted
\* state to the next currentStep never goes down.
C31_CursorSplitsSteps ==
    [][ (emitted' # <<>>)
          => /\ CursorSplits(emitted'[1])
             /\ (emitted # <<>>)
                   => (emitted'[1].currentStep >= emitted[1].currentStep)
      ]_vars

\* a state emitted by the catch block for a failure in the chunk stage
C31_Witness ==
    /\ emitted # <<>>
    /\ emitted[1].currentStep = 5
    /\ emitted[1].steps[5].status = "error"
    /\ emitted[1].steps[4].status = "complete"
    /\ emitted[1].steps[6].status = "pending"

\* C32: a step that is complete or in error keeps that status for the rest
\* of the run, and once onComplete has been invoked no further state is
\* emitted, also when onComplete or onStateUpdate throws.
C32_TerminalStatusesAbsorbing ==
    [][ /\ \A k \in StepIds :
              (steps[k].status \in {"complete", "error"})
                  => (steps'[k].status = steps[k].status)
        /\ (completed # <<>>) => (emitted' = emitted)
      ]_vars

\* C33: a failed run does not reject to handleBatchAnalyze: the catch branch
\* there is never taken (no library entry gets status 'error'), the batch
\* goes on with the next entry (a finished batch has run every entry), and
\* the entry of a failed run still has status 'processing' when the batch
\* has finished.
C33_FailedRunStaysProcessing ==
    \A b \in Batches :
        /\ \A k \in 1..Len(batches[b].library) : batches[b].library[k] # "error"
        /\ \A k \in 1..Len(batches[b].ends) :
              /\ Settles(batches[b].ends[k]) = "resolved"
              /\ (batches[b].ends[k] = "failed") => (batches[b].library[k] = "processing")
        /\ (batches[b].pc = "done") => (Len(batches[b].ends) = batches[b].entries)
        /\ (batches[b].pc \in {"loop", "running"}) => (Len(batches[b].ends) = batches[b].i)

\* a finished batch of two entries whose first run failed and second succeeded
C33_Witness ==
    \E b \in Batches :
        /\ batches[b].pc = "done"
        /\ batches[b].ends = << "failed", "done" >>
        /\ batches[b].library = << "processing", "complete" >>

\* line 441 has run: step 2 carries the target (443) or the estimate (449)
TargetSet == steps[2].output.tag \in {"target", "detected"}

\* C34: the target duration of a run is positive: minutes * 60 when a
\* positive summary length is given, else metadata.duration when that is
\* positive, else 300 s; so every planned window has a positive length and
\* the loop never skips an index (each index visited has its window).
C34_TargetPositive ==
    /\ TargetSet =>
          /\ targetDurationSeconds > 0
          /\ (outputDurationMinutes > 0)
                => (targetDurationSeconds = outputDurationMinutes * 60)
          /\ (outputDurationMinutes <= 0 /\ metadata.duration > 0)
                => (targetDurationSeconds = metadata.duration)
          /\ (outputDurationMinutes <= 0 /\ metadata.duration <= 0)
                => (targetDurationSeconds = FallbackDuration)
    /\ \A k \in 1..Len(windows) : Width(windows[k]) > 0
    /\ (pc = "chunk_loop") => (Len(windows) = i)
    /\ (pc \in {"gen_call", "chunk_merge"} /\ stage = "chunk") => (Len(windows) = i + 1)
    /\ LoopDone => (numChunks > 0 /\ Len(windows) = numChunks)

\* a two-minute summary of a 400 s video: the summary length decides
C34_Witness ==
    /\ LoopDone
    /\ outputDurationMinutes = 2
    /\ metadata.duration = 400
    /\ targetDurationSeconds = 120
    /\ Len(windows) = 1

RECURSIVE Requested(_)
Requested(ws) == IF ws = <<>> THEN 0 ELSE Head(ws).scenes + Requested(Tail(ws))

\* C35: for every positive whole target duration d the scene counts
\* requested over the chunks add up to ceil(d / 5); the sum is the first-pass
\* estimate max(10, ceil(d / 5)) exactly when d > 45 and is below the
\* estimate when d <= 45.
C35_RequestedSumVsEstimate ==
    LoopDone =>
        LET d == targetDurationSeconds
            total == Requested(windows)
        IN  /\ density * total >= d
            /\ density * (total - 1) < d
            /\ (total = sceneCount) <=> (d > 45)
            /\ (d <= 45) => (total < sceneCount)

\* a 45 s video: one window asking for 9 scenes against an estimate of 10
C35_Witness ==
    /\ LoopDone
    /\ targetDurationSeconds = 45
    /\ Len(windows) = 1
    /\ Requested(windows) = 9
    /\ sceneCount = 10

\* a scene without its scene_id
Content(s) == [t0 |-> s.t0, summary |-> s.summary]
Occurrences(c, sc) == Cardinality({ k \in 1..Len(sc) : Content(sc[k]) = c })

\* a and b hold the same scenes the same number of times, scene_id aside
SameScenes(a, b) ==
    /\ Len(a) = Len(b)
    /\ \A k \in 1..Len(a) :
          Occurrences(Content(a[k]), a) = Occurrences(Content(a[k]), b)

\* C36: in a successful run the final scene list, and the list delivered to
\* onComplete, is a permutation of the concatenation of the scene lists the
\* chunks returned (scene_id aside): nothing is dropped or duplicated and the
\* total is the sum of the returned counts, whatever count each window asked for.
C36_ScenesArePermutationOfReturned ==
    /\ AfterNormalize => SameScenes(finalJson.scenes, returnedScenes)
    /\ \A c \in 1..Len(completed) : SameScenes(completed[c].scenes, returnedScenes)

\* two chunks returned two scenes each, all four with the same t0, far from
\* the 24 and 2 scenes their windows asked for; the four were delivered
C36_Witness ==
    /\ pc = "done"
    /\ Len(windows) = 2
    /\ windows[1].scenes > MaxScenes
    /\ Len(returnedScenes) = 4
    /\ \A k \in 1..4 : returnedScenes[k].t0 = returnedScenes[1].t0
    /\ Len(completed[1].scenes) = 4

\* C37: the metadata built for a local file that was measured carries
\* duration 0, whatever length fetchFileMetadata measured; so without a
\* positive summary length the run plans for the 300 s fallback, 3 chunks
\* asking for 60 scenes in all, and with one it plans for minutes * 60.
C37_LocalFilePlansFallback ==
    (filePc = "running" /\ entry.isLocalFile /\ entry.localBlobUrl) =>
        /\ meta.duration = file.length
        /\ entry.result.isNull
        /\ metadata.duration = 0
        /\ TargetSet =>
              targetDurationSeconds = IF outputDurationMinutes > 0
                                      THEN outputDurationMinutes * 60
                                      ELSE FallbackDuration
        /\ (LoopDone /\ outputDurationMinutes <= 0) =>
              /\ numChunks = 3
              /\ Len(windows) = 3
              /\ Requested(windows) = 60

\* a file of 45 s, submitted without a summary length, has been planned
C37_Witness ==
    /\ LoopDone
    /\ filePc = "running"
    /\ file.readable
    /\ file.length = 45
    /\ meta.duration = 45
    /\ outputDurationMinutes = 0
    /\ Len(windows) = 3
    /\ Requested(windows) = 60

====
